---- MODULE Spec2Model ----
(***************************************************************************)
(* A model of the acquisition and chunking pipeline of ingest-for-rag:     *)
(*   - text_utils.chunk_text              (sliding-window chunker)         *)
(*   - text_utils.clean_nav_footer_noise  (noise filter run before scan)   *)
(*   - text_utils.chunk_with_code_blocks  (fence-aware chunker)            *)
(*   - crawl_docs.crawl                   (same-domain BFS crawler)        *)
(* Texts, URLs and globs are sequences of one-character strings, indexed   *)
(* from 1; the Python code indexes from 0, and the offsets kept in the     *)
(* state (start, cut) are the Python 0-based offsets.                      *)
(***************************************************************************)
EXTENDS Integers, Sequences, FiniteSets, TLC

VARIABLES
    \* ---- chunk_text(s, max_chars, overlap) ----
    ct_pc,        \* "call" | "loop" | "done"
    ct_in,        \* the argument s as passed by the caller
    s,            \* s after s.strip()
    max_chars,
    overlap,
    start,        \* window start offset (0-based)
    chunks,       \* list of emitted chunks
    windows,      \* history: the <<start, cut>> of every loop iteration
    \* ---- chunk_with_code_blocks(s, max_chars, overlap) ----
    cb_pc,        \* "call" | "scan" | "done"
    cb_in,        \* the argument s
    cb_max,
    cb_overlap,
    lines,        \* lines of the cleaned text
    cb_i,         \* number of lines already scanned
    buffer,
    in_code,
    cb_chunks,
    \* ---- crawl(start_url, out_dir, max_pages, ignore_robots, include, exclude) ----
    cr_pc,        \* "robots" | "loop" | "done" | "raised"
    start_url,
    max_pages,
    ignore_robots,
    include,
    exclude,
    rp,           \* the RobotFileParser returned by get_robots_ok
    visited,
    queue,
    records,
    evaluated,    \* history: URLs passed on to the same_domain/robots/glob checks
    fetched,      \* history: URLs for which requests.get was issued
    discovered,   \* history: every link found on a fetched html page
    errors,       \* history: <<url, stage>> of every exception the try block caught
    enqueued,     \* history: every URL put on the queue, in the order of the appends
    dequeued,     \* history: every URL popped from the queue, in the order of the pops
    \* ---- formatter.format_markdown, formatter/frontmatter.wrap_code_blocks ----
    fm_op,        \* the function called
    fm_pc,        \* "call" | "cleaned" | "stripped" | "deduped" | "promoted" | "done"
    fm_in,        \* the argument raw_text (text, for wrap_code_blocks)
    fm_is_md,     \* source.endswith(".md")
    fm_lines,     \* the local lines of format_markdown
    fm_out,       \* the body of the document (the text returned, for wrap_code_blocks)
    \* ---- cli.main, from the chunks of the crawled pages on ----
    ig_pc,        \* main: "embed" | "done" | "failed"; storage: "build_chroma" |
                  \* "write_jsonl" | "returned"
    ig_chunks,    \* the list chunks: source and chunk_id of every chunk
    batch_size,
    use_chroma,   \* not args.no_chroma
    ig_i,         \* offset of the next batch
    rows,
    upserts,      \* history: the entries of every col.upsert call
    jsonl,        \* the rows of processed/entries.jsonl, in the order of its lines
    md            \* the files of md/: file name -> source of the document in it

ctVars == <<ct_pc, ct_in, s, max_chars, overlap, start, chunks, windows>>
cbVars == <<cb_pc, cb_in, cb_max, cb_overlap, lines, cb_i, buffer, in_code, cb_chunks>>
crVars == <<cr_pc, start_url, max_pages, ignore_robots, include, exclude, rp,
            visited, queue, records, evaluated, fetched, discovered, errors,
            enqueued, dequeued>>
fmVars == <<fm_op, fm_pc, fm_in, fm_is_md, fm_lines, fm_out>>
igVars == <<ig_pc, ig_chunks, batch_size, use_chroma, ig_i, rows, upserts, jsonl, md>>
vars == <<ctVars, cbVars, crVars, fmVars, igVars>>

(***************************************************************************)
(* Strings                                                                 *)
(***************************************************************************)
Rep(c, k) == [i \in 1..k |-> c]

\* the characters str.strip() removes, among those the model's texts are made of
Whitespace == {" ", "\t", "\n", "\r"}

IsSpace(c) == c \in Whitespace

\* t[a:b] for 0 <= a, b (Python slice, clamped to the string)
Slice(t, a, b) ==
    LET hi == IF b > Len(t) THEN Len(t) ELSE b
    IN  IF a >= hi THEN <<>> ELSE SubSeq(t, a + 1, hi)

\* t.strip()
Strip(t) ==
    LET keep == {i \in 1..Len(t) : ~IsSpace(t[i])}
    IN  IF keep = {} THEN <<>>
        ELSE LET lo == CHOOSE i \in keep : \A j \in keep : i <= j
                 hi == CHOOSE i \in keep : \A j \in keep : i >= j
             IN  SubSeq(t, lo, hi)

\* t.rfind("\n\n", lo, hi): the greatest 0-based offset p with lo <= p,
\* p + 2 <= hi and t[p:p+2] == "\n\n"; -1 when there is none
RfindBreak(t, lo, hi) ==
    LET hits == {p \in lo..(hi - 2) : t[p + 1] = "\n" /\ t[p + 2] = "\n"}
    IN  IF hits = {} THEN -1
        ELSE CHOOSE p \in hits : \A q \in hits : p >= q

Min(a, b) == IF a <= b THEN a ELSE b
Max(a, b) == IF a >= b THEN a ELSE b

(***************************************************************************)
(* chunk_text                                                              *)
(***************************************************************************)
\* the minimum-progress threshold of a paragraph cut
MinProgress == 200

\* the cut point of the window starting at st
CutOf(t, st, mx) ==
    LET end == Min(st + mx, Len(t))
        cut == RfindBreak(t, st, end)
    IN  IF cut = -1 \/ cut <= st + MinProgress THEN end ELSE cut

\* a bug the forward-progress guard prevents: the fallback is missing
NextStartNoGuard(st, cut, mx, ov) == Max(0, cut - ov)

\* the start of the next window
NextStart(st, cut, mx, ov) ==
    LET new_start == cut - ov
    IN  Max(0, IF new_start <= st THEN st + mx ELSE new_start)

\* if chunk: chunks.append(chunk)
Emit(cs, chunk) == IF chunk # <<>> THEN Append(cs, chunk) ELSE cs

\* the while loop of chunk_text from offset st, as a function
RECURSIVE ChunkLoop(_, _, _, _, _)
ChunkLoop(t, mx, ov, st, cs) ==
    IF st >= Len(t) THEN cs
    ELSE LET cut == CutOf(t, st, mx)
         IN  ChunkLoop(t, mx, ov, NextStart(st, cut, mx, ov),
                       Emit(cs, Strip(Slice(t, st, cut))))

\* chunk_text(t, mx, ov) as a function
ChunkText(t, mx, ov) ==
    LET u == Strip(t)
    IN  IF u = <<>> THEN <<>> ELSE ChunkLoop(u, mx, ov, 0, <<>>)

\* ---- bounds of the chunk_text inputs ----
MaxLen == 4          \* short texts: every string over CtAlphabet up to this length
MaxChars == 3        \* short texts: max_chars in 1..MaxChars
MaxOverlap == 3      \* short texts: overlap in 0..MaxOverlap (reaches overlap >= max_chars)
ParaSpan == 2        \* long texts: first paragraph of MinProgress-1 .. MinProgress+ParaSpan chars
TailMax == 2         \* long texts: second paragraph of 1..TailMax chars, or a long one

CtAlphabet == {"a", " ", "\n"}

RECURSIVE Strings(_, _)
Strings(alphabet, n) ==
    IF n = 0 THEN {<<>>}
    ELSE LET shorter == Strings(alphabet, n - 1)
         IN  shorter \cup {Append(t, c) : t \in {u \in shorter : Len(u) = n - 1}, c \in alphabet}

ShortTexts == Strings(CtAlphabet, MaxLen)

\* two paragraphs separated by a blank line, the first one about MinProgress long
LongTexts ==
    {Rep("a", k1) \o <<"\n", "\n">> \o Rep("b", k2) :
        k1 \in (MinProgress - 1)..(MinProgress + ParaSpan),
        k2 \in (1..TailMax) \cup {MinProgress + TailMax + 50}}

LongMaxChars == {MinProgress + 4, MinProgress + 100}
LongOverlaps == {0, 150, MinProgress + 1, MinProgress + 100}

\* a 2500-character text without a paragraph break, chunked with
\* max_chars=1000 and overlap=150
PlainBlock == Rep("a", 2500)

CtInputs ==
    {<<t, m, o>> : t \in ShortTexts, m \in 1..MaxChars, o \in 0..MaxOverlap}
    \cup {<<t, m, o>> : t \in LongTexts, m \in LongMaxChars, o \in LongOverlaps}
    \cup {<<PlainBlock, 1000, 150>>}

CtIdle ==
    /\ ct_pc = "idle" /\ ct_in = <<>> /\ s = <<>> /\ max_chars = 1 /\ overlap = 0
    /\ start = 0 /\ chunks = <<>> /\ windows = <<>>

CtInit ==
    /\ \E inp \in CtInputs :
        /\ ct_in = inp[1]
        /\ max_chars = inp[2]
        /\ overlap = inp[3]
    /\ ct_pc = "call"
    /\ s = <<>>
    /\ start = 0
    /\ chunks = <<>>
    /\ windows = <<>>

\* s = s.strip(); if not s: return []; chunks = []; start = 0; n = len(s)
ChunkTextEnter ==
    /\ ct_pc = "call"
    /\ s' = Strip(ct_in)
    /\ ct_pc' = IF Strip(ct_in) = <<>> THEN "done" ELSE "loop"
    /\ start' = 0
    /\ chunks' = <<>>
    /\ UNCHANGED <<ct_in, max_chars, overlap, windows>>
    /\ UNCHANGED <<cbVars, crVars, fmVars, igVars>>

\* one iteration of  while start < n
ChunkTextIter ==
    /\ ct_pc = "loop"
    /\ start < Len(s)
    /\ LET cut == CutOf(s, start, max_chars)
       IN  /\ chunks' = Emit(chunks, Strip(Slice(s, start, cut)))
           /\ windows' = Append(windows, <<start, cut>>)
           /\ start' = NextStart(start, cut, max_chars, overlap)
    /\ UNCHANGED <<ct_pc, ct_in, s, max_chars, overlap>>
    /\ UNCHANGED <<cbVars, crVars, fmVars, igVars>>

\* the loop test fails: return chunks
ChunkTextReturn ==
    /\ ct_pc = "loop"
    /\ start >= Len(s)
    /\ ct_pc' = "done"
    /\ UNCHANGED <<ct_in, s, max_chars, overlap, start, chunks, windows>>
    /\ UNCHANGED <<cbVars, crVars, fmVars, igVars>>

CtNext == ChunkTextEnter \/ ChunkTextIter \/ ChunkTextReturn

(***************************************************************************)
(* clean_nav_footer_noise                                                  *)
(***************************************************************************)
\* the model's name for the character U+2318 (place of interest sign)
CommandKey == "U+2318"

UpperLetters == <<"A", "B", "C", "D", "E", "F", "G", "H", "I", "J", "K", "L", "M",
                  "N", "O", "P", "Q", "R", "S", "T", "U", "V", "W", "X", "Y", "Z">>
LowerLetters == <<"a", "b", "c", "d", "e", "f", "g", "h", "i", "j", "k", "l", "m",
                  "n", "o", "p", "q", "r", "s", "t", "u", "v", "w", "x", "y", "z">>

LowerChar(c) ==
    IF \E k \in 1..Len(UpperLetters) : UpperLetters[k] = c
    THEN LowerLetters[CHOOSE k \in 1..Len(UpperLetters) : UpperLetters[k] = c]
    ELSE c

\* t.lower()
Lower(t) == [i \in 1..Len(t) |-> LowerChar(t[i])]

\* sub in t
Contains(t, sub) ==
    \E i \in 0..(Len(t) - Len(sub)) : SubSeq(t, i + 1, i + Len(sub)) = sub

\* t.startswith(pre)
StartsWith(t, pre) == Len(t) >= Len(pre) /\ SubSeq(t, 1, Len(pre)) = pre

\* t.splitlines(), for texts whose only line boundary is "\n"
RECURSIVE SplitLines(_)
SplitLines(t) ==
    IF t = <<>> THEN <<>>
    ELSE LET nl == {i \in 1..Len(t) : t[i] = "\n"}
         IN  IF nl = {} THEN <<t>>
             ELSE LET p == CHOOSE i \in nl : \A j \in nl : i <= j
                  IN  <<SubSeq(t, 1, p - 1)>> \o SplitLines(SubSeq(t, p + 1, Len(t)))

\* "\n".join(ls)
RECURSIVE Join(_)
Join(ls) ==
    IF ls = <<>> THEN <<>>
    ELSE IF Len(ls) = 1 THEN ls[1]
    ELSE ls[1] \o <<"\n">> \o Join(Tail(ls))

NoisePhrases ==
    {<<"h", "o", "m", "e", " ", "p", "a", "g", "e">>,
     <<"s", "e", "a", "r", "c", "h">>,
     <<"n", "a", "v", "i", "g", "a", "t", "i", "o", "n">>,
     <<"i", "s", "s", "u", "e", "s">>,
     <<"g", "i", "t", "h", "u", "b">>,
     <<"s", "l", "a", "c", "k">>,
     <<"w", "a", "s", " ", "t", "h", "i", "s", " ", "p", "a", "g", "e", " ",
       "h", "e", "l", "p", "f", "u", "l">>,
     <<"a", "s", "s", "i", "s", "t", "a", "n", "t">>,
     <<"r", "e", "s", "p", "o", "n", "s", "e", "s", " ", "a", "r", "e", " ",
       "g", "e", "n", "e", "r", "a", "t", "e", "d">>,
     <<"c", "o", "p", "y">>,
     <<"a", "s", "k", " ", "a", "i">>,
     <<CommandKey>>,
     <<"v", "e", "r", "s", "i", "o", "n", " ">>}

\* the two tests of the first loop: the line is blank, or holds a noise phrase
IsNoiseLine(line) ==
    LET low == Strip(Lower(line))
    IN  \/ Strip(line) = <<>>
        \/ \E x \in NoisePhrases : Contains(low, x)

\* the second loop: drop consecutive duplicate lines
RECURSIVE DropConsecutiveDuplicates(_, _)
DropConsecutiveDuplicates(ls, out) ==
    IF ls = <<>> THEN out
    ELSE DropConsecutiveDuplicates(
            Tail(ls),
            IF out = <<>> \/ out[Len(out)] # Head(ls) THEN Append(out, Head(ls)) ELSE out)

\* the list out of clean_nav_footer_noise, before it is joined
CleanLines(t) ==
    DropConsecutiveDuplicates(SelectSeq(SplitLines(t), LAMBDA l : ~IsNoiseLine(l)), <<>>)

clean_nav_footer_noise(t) == Join(CleanLines(t))

(***************************************************************************)
(* chunk_with_code_blocks                                                  *)
(***************************************************************************)
\* the model's name for the character U+0060 (grave accent, the backtick)
Backtick == "U+0060"

Fence == <<Backtick, Backtick, Backtick>>

\* a bug the fence test prevents: no line opens or closes a block, and the
\* whole text is chunked as prose
IsFenceLineNever(line) == FALSE

\* line.strip().startswith(three backticks)
IsFenceLine(line) == StartsWith(Strip(line), Fence)

\* ---- bounds of the chunk_with_code_blocks inputs ----
MaxLines == 4        \* input texts of up to this many lines
CbMaxChars == 2      \* max_chars in 1..CbMaxChars
CbMaxOverlap == 1    \* overlap in 0..CbMaxOverlap

\* the lines the input texts are made of: blank, prose, a fence, a noise line
CbLineSet == {<<>>, <<"a">>, <<"b">>, Fence, <<"C", "o", "p", "y">>}

CbTexts == {Join(ls) : ls \in UNION {[1..n -> CbLineSet] : n \in 0..MaxLines}}

\* chunk_docs(s) = chunk_with_code_blocks(s, max_chars=1200, overlap=150)
DocsMaxChars == 1200
DocsOverlap == 150

\* a page body: a prose paragraph, a blank line, a closed json block, a blank
\* line, a prose paragraph
IntroLine == <<"I", "n", "t", "r", "o", " ", "p", "a", "r", "a", "g", "r", "a", "p", "h", ".">>
JsonFence == Fence \o <<"j", "s", "o", "n">>
JsonLine == <<"{", "\"", "a", "\"", ":", "1", "}">>
OutroLine == <<"O", "u", "t", "r", "o", ".">>
PageBody == Join(<<IntroLine, <<>>, JsonFence, JsonLine, Fence, <<>>, OutroLine>>)
PageBlock == Join(<<JsonFence, JsonLine, Fence>>)

\* the short texts with every small window, and the page body with the window
\* of the scenario (1000, 150) and with the one of chunk_docs
CbInputs ==
    {<<t, m, o>> : t \in CbTexts, m \in 1..CbMaxChars, o \in 0..CbMaxOverlap}
    \cup {<<PageBody, 1000, 150>>, <<PageBody, DocsMaxChars, DocsOverlap>>}

CbIdle ==
    /\ cb_pc = "idle" /\ cb_in = <<>> /\ cb_max = 1 /\ cb_overlap = 0 /\ lines = <<>>
    /\ cb_i = 0 /\ buffer = <<>> /\ in_code = FALSE /\ cb_chunks = <<>>

CbInit ==
    /\ \E inp \in CbInputs :
        /\ cb_in = inp[1]
        /\ cb_max = inp[2]
        /\ cb_overlap = inp[3]
    /\ cb_pc = "call"
    /\ lines = <<>>
    /\ cb_i = 0
    /\ buffer = <<>>
    /\ in_code = FALSE
    /\ cb_chunks = <<>>

\* s = clean_nav_footer_noise(s); lines = s.splitlines(); chunks, buffer, in_code = [], [], False
BlocksEnter ==
    /\ cb_pc = "call"
    /\ lines' = SplitLines(clean_nav_footer_noise(cb_in))
    /\ cb_i' = 0
    /\ buffer' = <<>>
    /\ in_code' = FALSE
    /\ cb_chunks' = <<>>
    /\ cb_pc' = "scan"
    /\ UNCHANGED <<cb_in, cb_max, cb_overlap>>
    /\ UNCHANGED <<ctVars, crVars, fmVars, igVars>>

\* one iteration of  for line in lines
BlocksScanLine ==
    /\ cb_pc = "scan"
    /\ cb_i < Len(lines)
    /\ LET line == lines[cb_i + 1]
       IN  IF IsFenceLine(line)
           THEN IF in_code
                THEN \* closing fence: the buffered block is one chunk
                     LET block == Strip(Join(Append(buffer, line)))
                     IN  /\ cb_chunks' = IF block # <<>> THEN Append(cb_chunks, block)
                                         ELSE cb_chunks
                         /\ buffer' = <<>>
                         /\ in_code' = FALSE
                ELSE \* opening fence: the buffered prose goes through chunk_text
                     LET prose == Strip(Join(buffer))
                     IN  /\ cb_chunks' = IF buffer # <<>> /\ prose # <<>>
                                         THEN cb_chunks \o ChunkText(prose, cb_max, cb_overlap)
                                         ELSE cb_chunks
                         /\ buffer' = <<line>>
                         /\ in_code' = TRUE
           ELSE /\ buffer' = Append(buffer, line)
                /\ UNCHANGED <<in_code, cb_chunks>>
    /\ cb_i' = cb_i + 1
    /\ UNCHANGED <<cb_pc, cb_in, cb_max, cb_overlap, lines>>
    /\ UNCHANGED <<ctVars, crVars, fmVars, igVars>>

\* after the loop: flush the buffer and return chunks
BlocksFlush ==
    /\ cb_pc = "scan"
    /\ cb_i = Len(lines)
    /\ LET text == Strip(Join(buffer))
       IN  cb_chunks' =
             IF buffer # <<>> /\ text # <<>>
             THEN IF in_code THEN Append(cb_chunks, text)
                  ELSE cb_chunks \o ChunkText(text, cb_max, cb_overlap)
             ELSE cb_chunks
    /\ cb_pc' = "done"
    /\ UNCHANGED <<cb_in, cb_max, cb_overlap, lines, cb_i, buffer, in_code>>
    /\ UNCHANGED <<ctVars, crVars, fmVars, igVars>>

CbNext == BlocksEnter \/ BlocksScanLine \/ BlocksFlush

(***************************************************************************)
(* URLs: urllib.parse.urlsplit, urlparse, urlunparse, quote, unquote      *)
(* A URL is a sequence of ASCII characters and of CommandKey; a character *)
(* that cannot be written in a string is named by its code point.         *)
(***************************************************************************)
\* the ASCII characters, in the order of their codes 0..127
Ascii ==
    <<
      "U+0000", "U+0001", "U+0002", "U+0003", "U+0004", "U+0005", "U+0006", "U+0007",
      "U+0008", "\t", "\n", "U+000B", "U+000C", "\r", "U+000E", "U+000F",
      "U+0010", "U+0011", "U+0012", "U+0013", "U+0014", "U+0015", "U+0016", "U+0017",
      "U+0018", "U+0019", "U+001A", "U+001B", "U+001C", "U+001D", "U+001E", "U+001F",
      " ", "!", "\"", "#", "$", "%", "&", "'",
      "(", ")", "*", "+", ",", "-", ".", "/",
      "0", "1", "2", "3", "4", "5", "6", "7",
      "8", "9", ":", ";", "<", "=", ">", "?",
      "@", "A", "B", "C", "D", "E", "F", "G",
      "H", "I", "J", "K", "L", "M", "N", "O",
      "P", "Q", "R", "S", "T", "U", "V", "W",
      "X", "Y", "Z", "[", "\\", "]", "^", "_",
      Backtick, "a", "b", "c", "d", "e", "f", "g",
      "h", "i", "j", "k", "l", "m", "n", "o",
      "p", "q", "r", "s", "t", "u", "v", "w",
      "x", "y", "z", "{", "|", "}", "~", "U+007F"
    >>

\* ord(c), for an ASCII character
Ord(c) == (CHOOSE n \in 1..Len(Ascii) : Ascii[n] = c) - 1

\* chr(n), for n in 0..127
Chr(n) == Ascii[n + 1]

Digits == {"0", "1", "2", "3", "4", "5", "6", "7", "8", "9"}
Letters == {UpperLetters[k] : k \in 1..Len(UpperLetters)}
             \cup {LowerLetters[k] : k \in 1..Len(LowerLetters)}
SchemeChars == Letters \cup Digits \cup {"+", "-", "."}
HexDigitsUpper == <<"0", "1", "2", "3", "4", "5", "6", "7", "8", "9",
                    "A", "B", "C", "D", "E", "F">>
HexDigitsLower == <<"0", "1", "2", "3", "4", "5", "6", "7", "8", "9",
                    "a", "b", "c", "d", "e", "f">>
HEX_DIGITS == {HexDigitsUpper[k] : k \in 1..16} \cup {HexDigitsLower[k] : k \in 1..16}

\* int(c, 16), for a hexadecimal digit
HexValue(c) ==
    (CHOOSE k \in 1..16 : HexDigitsUpper[k] = c \/ HexDigitsLower[k] = c) - 1

\* the least index i >= from with t[i] \in cs; 0 when there is none
FirstIndex(t, cs, from) ==
    LET hits == {i \in from..Len(t) : t[i] \in cs}
    IN  IF hits = {} THEN 0 ELSE CHOOSE i \in hits : \A j \in hits : i <= j

\* the last index of c in t; 0 when there is none
LastIndex(t, c) ==
    LET hits == {i \in 1..Len(t) : t[i] = c}
    IN  IF hits = {} THEN 0 ELSE CHOOSE i \in hits : \A j \in hits : i >= j

\* c in t
HasChar(t, c) == \E i \in 1..Len(t) : t[i] = c

\* t.lstrip(cs)
LStrip(t, cs) ==
    LET i == CHOOSE k \in 1..(Len(t) + 1) :
                 /\ \A j \in 1..(k - 1) : t[j] \in cs
                 /\ k <= Len(t) => t[k] \notin cs
    IN  SubSeq(t, i, Len(t))

\* t with every character of cs removed
RemoveChars(t, cs) == SelectSeq(t, LAMBDA c : c \notin cs)

\* t.split(c)
RECURSIVE SplitAt(_, _)
SplitAt(t, c) ==
    LET i == FirstIndex(t, {c}, 1)
    IN  IF i = 0 THEN <<t>>
        ELSE <<SubSeq(t, 1, i - 1)>> \o SplitAt(SubSeq(t, i + 1, Len(t)), c)

\* _WHATWG_C0_CONTROL_OR_SPACE: the characters of codes 0..32
WHATWG_C0_CONTROL_OR_SPACE == {Chr(n) : n \in 0..32}

\* _UNSAFE_URL_BYTES_TO_REMOVE
UNSAFE_URL_BYTES_TO_REMOVE == {"\t", "\r", "\n"}

\* uses_params
uses_params ==
    {<<>>, <<"f", "t", "p">>, <<"h", "d", "l">>,
     <<"p", "r", "o", "s", "p", "e", "r", "o">>, <<"h", "t", "t", "p">>,
     <<"i", "m", "a", "p">>, <<"h", "t", "t", "p", "s">>, <<"s", "h", "t", "t", "p">>,
     <<"r", "t", "s", "p">>, <<"r", "t", "s", "p", "s">>, <<"r", "t", "s", "p", "u">>,
     <<"s", "i", "p">>, <<"s", "i", "p", "s">>, <<"m", "m", "s">>, <<"s", "f", "t", "p">>,
     <<"t", "e", "l">>}

\* uses_netloc
uses_netloc ==
    {<<>>, <<"f", "t", "p">>, <<"h", "t", "t", "p">>, <<"g", "o", "p", "h", "e", "r">>,
     <<"n", "n", "t", "p">>, <<"t", "e", "l", "n", "e", "t">>, <<"i", "m", "a", "p">>,
     <<"w", "a", "i", "s">>, <<"f", "i", "l", "e">>, <<"m", "m", "s">>,
     <<"h", "t", "t", "p", "s">>, <<"s", "h", "t", "t", "p">>,
     <<"s", "n", "e", "w", "s">>, <<"p", "r", "o", "s", "p", "e", "r", "o">>,
     <<"r", "t", "s", "p">>, <<"r", "t", "s", "p", "s">>, <<"r", "t", "s", "p", "u">>,
     <<"r", "s", "y", "n", "c">>, <<"s", "v", "n">>,
     <<"s", "v", "n", "+", "s", "s", "h">>, <<"s", "f", "t", "p">>, <<"n", "f", "s">>,
     <<"g", "i", "t">>, <<"g", "i", "t", "+", "s", "s", "h">>, <<"w", "s">>,
     <<"w", "s", "s">>}

\* ipaddress: IPv4Address._parse_octet accepts the octet
IsOctet(o) ==
    /\ o # <<>>
    /\ \A k \in 1..Len(o) : o[k] \in Digits
    /\ Len(o) <= 3
    /\ o = <<"0">> \/ o[1] # "0"
    /\ (Len(o) = 3 =>
          100 * HexValue(o[1]) + 10 * HexValue(o[2]) + HexValue(o[3]) <= 255)

\* ipaddress: IPv4Address(t) is built without an AddressValueError
IsIPv4(t) ==
    /\ ~HasChar(t, "/")
    /\ t # <<>>
    /\ LET octets == SplitAt(t, ".")
       IN  Len(octets) = 4 /\ \A k \in 1..4 : IsOctet(octets[k])

\* ipaddress: IPv6Address._parse_hextet accepts the hextet
IsHextet(h) ==
    /\ \A k \in 1..Len(h) : h[k] \in HEX_DIGITS
    /\ Len(h) <= 4
    /\ h # <<>>

\* ipaddress: IPv6Address._ip_int_from_string, from the test of the "::" on:
\* parts are the hextets, skips the indices of the empty ones inside
IPv6Hextets(parts, skips) ==
    LET n == Len(parts)
        skip == CHOOSE i \in skips : TRUE
        hi == IF parts[1] = <<>> THEN skip - 2 ELSE skip - 1
        lo == IF parts[n] = <<>> THEN n - skip - 1 ELSE n - skip
    IN  /\ n <= 9
        /\ Cardinality(skips) <= 1
        /\ IF skips # {}
           THEN /\ parts[1] = <<>> => hi = 0
                /\ parts[n] = <<>> => lo = 0
                /\ 8 - (hi + lo) >= 1
                /\ \A i \in 1..hi : IsHextet(parts[i])
                /\ \A i \in (n - lo + 1)..n : IsHextet(parts[i])
           ELSE /\ n = 8
                /\ \A i \in 1..n : IsHextet(parts[i])

\* ipaddress: IPv6Address._ip_int_from_string, for the parts the hextets of
\* which are still to be read
IPv6Parts(parts) == IPv6Hextets(parts, {i \in 2..(Len(parts) - 1) : parts[i] = <<>>})

\* ipaddress: IPv6Address._ip_int_from_string, for raw = ip_str.split(":");
\* the two hextets that replace a dotted-quad tail are written by "%x"
IPv6Split(raw) ==
    /\ Len(raw) >= 3
    /\ HasChar(raw[Len(raw)], ".") => IsIPv4(raw[Len(raw)])
    /\ IPv6Parts(IF HasChar(raw[Len(raw)], ".")
                 THEN SubSeq(raw, 1, Len(raw) - 1) \o <<<<"0">>, <<"0">>>>
                 ELSE raw)

\* ipaddress: IPv6Address._ip_int_from_string(ip_str) returns
IPv6Address(ip_str) == ip_str # <<>> /\ IPv6Split(SplitAt(ip_str, ":"))

\* ipaddress: IPv6Address._split_scope_id accepts the scope id after the "%"
ScopeIdOk(scope_id) == scope_id # <<>> /\ ~HasChar(scope_id, "%")

\* ipaddress: IPv6Address(t) is built without an AddressValueError
IsIPv6(t) ==
    LET pc == FirstIndex(t, {"%"}, 1)
    IN  /\ ~HasChar(t, "/")
        /\ pc # 0 => ScopeIdOk(SubSeq(t, pc + 1, Len(t)))
        /\ IPv6Address(IF pc = 0 THEN t ELSE SubSeq(t, 1, pc - 1))

\* _check_bracketed_host(hostname) returns without a ValueError: a hostname
\* that starts with "v" is "v", hexadecimal digits, "." and one character or
\* more, none of them a line feed (the "." of the pattern does not match it)
BracketedHostOk(hostname) ==
    IF hostname # <<>> /\ hostname[1] = "v"
    THEN LET d == FirstIndex(hostname, {"."}, 1)
         IN  /\ d >= 3
             /\ \A k \in 2..(d - 1) : hostname[k] \in HEX_DIGITS
             /\ d < Len(hostname)
             /\ \A k \in (d + 1)..Len(hostname) : hostname[k] # "\n"
    ELSE ~IsIPv4(hostname) /\ IsIPv6(hostname)

\* netloc.partition("[")[2].partition("]")[0], for the text after the first "["
BracketedHost(after) ==
    LET j == FirstIndex(after, {"]"}, 1)
    IN  IF j = 0 THEN after ELSE SubSeq(after, 1, j - 1)

\* the tests of urlsplit on the brackets of the netloc raise ValueError
NetlocRaises(netloc) ==
    LET open == HasChar(netloc, "[")
        close == HasChar(netloc, "]")
    IN  \/ open /\ ~close
        \/ close /\ ~open
        \/ /\ open /\ close
           /\ ~BracketedHostOk(BracketedHost(
                  SubSeq(netloc, FirstIndex(netloc, {"["}, 1) + 1, Len(netloc))))

\* the name of the exception urlsplit raises
ValueError == "ValueError"

\* urlsplit, from the split of the query on: url3 is the url without its
\* scheme, netloc and fragment
UrlSplitQuery(scheme, has_netloc, netloc, url3, fragment) ==
    LET q == FirstIndex(url3, {"?"}, 1)
    IN  [raises |-> has_netloc /\ NetlocRaises(netloc),
         scheme |-> scheme, netloc |-> netloc,
         path |-> IF q = 0 THEN url3 ELSE SubSeq(url3, 1, q - 1),
         query |-> IF q = 0 THEN <<>> ELSE SubSeq(url3, q + 1, Len(url3)),
         fragment |-> fragment]

\* urlsplit, from the split of the fragment on: url2 is the url without its
\* scheme and netloc
UrlSplitFragment(scheme, has_netloc, netloc, url2) ==
    LET h == FirstIndex(url2, {"#"}, 1)
    IN  UrlSplitQuery(scheme, has_netloc, netloc,
                      IF h = 0 THEN url2 ELSE SubSeq(url2, 1, h - 1),
                      IF h = 0 THEN <<>> ELSE SubSeq(url2, h + 1, Len(url2)))

\* urlsplit, from the split of the netloc on: url1 is the url without its scheme
UrlSplitNetloc(scheme, url1) ==
    LET has_netloc == StartsWith(url1, <<"/", "/">>)
        d == IF has_netloc THEN FirstIndex(url1, {"/", "?", "#"}, 3) ELSE 0
    IN  UrlSplitFragment(scheme, has_netloc,
                         IF ~has_netloc THEN <<>>
                         ELSE IF d = 0 THEN SubSeq(url1, 3, Len(url1))
                         ELSE SubSeq(url1, 3, d - 1),
                         IF ~has_netloc THEN url1
                         ELSE IF d = 0 THEN <<>>
                         ELSE SubSeq(url1, d, Len(url1)))

\* urlsplit, from the split of the scheme on: url0 is the url stripped of its
\* leading spaces and control characters and of its tabs and line ends
UrlSplitScheme(url0) ==
    LET i == FirstIndex(url0, {":"}, 1)
        has_scheme == /\ i > 1
                      /\ url0[1] \in Letters
                      /\ \A k \in 1..(i - 1) : url0[k] \in SchemeChars
    IN  UrlSplitNetloc(IF has_scheme THEN Lower(SubSeq(url0, 1, i - 1)) ELSE <<>>,
                       IF has_scheme THEN SubSeq(url0, i + 1, Len(url0)) ELSE url0)

\* the steps of urlsplit(u): raises tells that it ends by raising ValueError,
\* the other fields are the values of its locals
UrlSplitSteps(u) ==
    UrlSplitScheme(RemoveChars(LStrip(u, WHATWG_C0_CONTROL_OR_SPACE),
                               UNSAFE_URL_BYTES_TO_REMOVE))

\* urlsplit(u) raises ValueError; also urlparse(u), which calls it
UrlRaises(u) == UrlSplitSteps(u).raises

\* _splitparams(url), for a url that holds ";"
SplitParams(url) ==
    LET slash == LastIndex(url, "/")
        i == IF slash # 0 THEN FirstIndex(url, {";"}, slash)
             ELSE FirstIndex(url, {";"}, 1)
    IN  IF i = 0 THEN <<url, <<>>>>
        ELSE <<SubSeq(url, 1, i - 1), SubSeq(url, i + 1, Len(url))>>

\* urlparse, from the result sp of urlsplit on
UrlParseSplit(sp) ==
    LET split == IF sp.scheme \in uses_params /\ HasChar(sp.path, ";")
                 THEN SplitParams(sp.path)
                 ELSE <<sp.path, <<>>>>
    IN  IF sp.raises THEN ValueError
        ELSE [scheme |-> sp.scheme, netloc |-> sp.netloc, path |-> split[1],
              params |-> split[2], query |-> sp.query, fragment |-> sp.fragment]

\* urlparse(u): ValueError, or the six components
UrlParseOf(u) == UrlParseSplit(UrlSplitSteps(u))

\* urlunparse(p), for the six components p
urlunparse(p) ==
    LET url0 == IF p.params # <<>> THEN p.path \o <<";">> \o p.params ELSE p.path
        url1 == IF \/ p.netloc # <<>>
                   \/ /\ p.scheme # <<>>
                      /\ p.scheme \in uses_netloc
                      /\ ~StartsWith(url0, <<"/", "/">>)
                THEN <<"/", "/">> \o p.netloc
                       \o (IF url0 # <<>> /\ url0[1] # "/" THEN <<"/">> ELSE <<>>)
                       \o url0
                ELSE url0
        url2 == IF p.scheme # <<>> THEN p.scheme \o <<":">> \o url1 ELSE url1
        url3 == IF p.query # <<>> THEN url2 \o <<"?">> \o p.query ELSE url2
    IN  IF p.fragment # <<>> THEN url3 \o <<"#">> \o p.fragment ELSE url3

\* the bytes of the UTF-8 encoding of a character
Utf8Bytes(c) == IF c = CommandKey THEN <<226, 140, 152>> ELSE <<Ord(c)>>

\* _ALWAYS_SAFE and the default safe character "/"
QuoteSafe == Letters \cup Digits \cup {"_", ".", "-", "~", "/"}

\* "%XX" for the byte b
PercentByte(b) == <<"%", HexDigitsUpper[(b \div 16) + 1], HexDigitsUpper[(b % 16) + 1]>>

\* the bytes bs, each as "%XX"
RECURSIVE PercentBytes(_)
PercentBytes(bs) ==
    IF bs = <<>> THEN <<>> ELSE PercentByte(Head(bs)) \o PercentBytes(Tail(bs))

\* quote(t)
RECURSIVE quote(_)
quote(t) ==
    IF t = <<>> THEN <<>>
    ELSE (IF Head(t) \in QuoteSafe THEN <<Head(t)>> ELSE PercentBytes(Utf8Bytes(Head(t))))
           \o quote(Tail(t))

\* unquote(t), for a text whose "%XX" escapes are below "%80": an escape of
\* two hexadecimal digits becomes the character of that code, any other "%"
\* is kept
RECURSIVE unquote(_)
unquote(t) ==
    IF t = <<>> THEN <<>>
    ELSE IF /\ Head(t) = "%" /\ Len(t) >= 3
            /\ t[2] \in HEX_DIGITS /\ t[3] \in HEX_DIGITS
            /\ HexValue(t[2]) < 8
    THEN <<Chr(16 * HexValue(t[2]) + HexValue(t[3]))>> \o unquote(SubSeq(t, 4, Len(t)))
    ELSE <<Head(t)>> \o unquote(Tail(t))

\* urlparse(u).scheme
UrlScheme(u) == IF UrlRaises(u) THEN ValueError ELSE UrlSplitSteps(u).scheme

\* urlparse(u).netloc
UrlNetloc(u) == IF UrlRaises(u) THEN ValueError ELSE UrlSplitSteps(u).netloc

\* urlparse(u).path
UrlPath(u) == IF UrlRaises(u) THEN ValueError ELSE UrlParseOf(u).path

Http == <<"h", "t", "t", "p">>
Https == <<"h", "t", "t", "p", "s">>

\* https://x.test/a
UrlA == <<"h", "t", "t", "p", "s", ":", "/", "/", "x", ".", "t", "e", "s", "t", "/", "a">>
\* https://x.test/b
UrlB == <<"h", "t", "t", "p", "s", ":", "/", "/", "x", ".", "t", "e", "s", "t", "/", "b">>
\* https://y.test/b
UrlY == <<"h", "t", "t", "p", "s", ":", "/", "/", "y", ".", "t", "e", "s", "t", "/", "b">>
\* http://x.test/b
UrlH == <<"h", "t", "t", "p", ":", "/", "/", "x", ".", "t", "e", "s", "t", "/", "b">>
\* https://x.test/c.png
UrlP == <<"h", "t", "t", "p", "s", ":", "/", "/", "x", ".", "t", "e", "s", "t", "/", "c", ".", "p", "n", "g">>
\* https://[x.test/a, a URL urlparse rejects
UrlBad == <<"h", "t", "t", "p", "s", ":", "/", "/", "[", "x", ".", "t", "e", "s", "t", "/", "a">>

\* the URLs pages link to, as urldefrag(urljoin(url, href)) returns them
LinkUniverse == {UrlA, UrlB, UrlY, UrlH, UrlP}

\* the values of start_url
StartUrls == {UrlA, UrlBad}

\* urlparse of the URLs of the model, computed once
ParsedLinks == [u \in LinkUniverse \cup StartUrls |-> UrlParseOf(u)]

\* urlparse(u)
urlparse(u) == IF u \in DOMAIN ParsedLinks THEN ParsedLinks[u] ELSE UrlParseOf(u)

\* same_domain(root, candidate) raises the ValueError of urlparse
SameDomainRaises(root, candidate) == UrlRaises(root) \/ UrlRaises(candidate)

\* a bug the netloc comparison prevents: any http(s) URL passes
SameDomainAnyHost(root, candidate) ==
    IF SameDomainRaises(root, candidate) THEN ValueError
    ELSE urlparse(candidate).scheme \in {Http, Https}

\* same_domain(root, candidate): ValueError, or the value returned
same_domain(root, candidate) ==
    IF SameDomainRaises(root, candidate) THEN ValueError
    ELSE LET r == urlparse(root)
             c == urlparse(candidate)
         IN  r.netloc = c.netloc /\ c.scheme \in {Http, Https}

(***************************************************************************)
(* should_keep_url: fnmatch over the lower-cased URL and glob              *)
(***************************************************************************)
\* fnmatch.fnmatchcase for globs made of literals, "*" and "?"
RECURSIVE GlobMatch(_, _)
GlobMatch(name, pat) ==
    IF pat = <<>> THEN name = <<>>
    ELSE IF Head(pat) = "*"
    THEN \E k \in 0..Len(name) : GlobMatch(SubSeq(name, k + 1, Len(name)), Tail(pat))
    ELSE /\ name # <<>>
         /\ Head(pat) = "?" \/ Head(pat) = Head(name)
         /\ GlobMatch(Tail(name), Tail(pat))

\* fnmatch(u.lower(), g.lower())
Fnmatch(u, g) == GlobMatch(Lower(u), Lower(g))

MatchesAny(u, globs) == \E k \in 1..Len(globs) : Fnmatch(u, globs[k])

\* a bug the order of the two tests prevents: an include match is accepted first
ShouldKeepIncludeFirst(u, include_globs, exclude_globs) ==
    IF include_globs # <<>>
    THEN MatchesAny(u, include_globs)
    ELSE ~MatchesAny(u, exclude_globs)

\* None and the empty list are both <<>>: the code tests the lists for truth
should_keep_url(u, include_globs, exclude_globs) ==
    IF exclude_globs # <<>> /\ MatchesAny(u, exclude_globs) THEN FALSE
    ELSE IF include_globs # <<>> THEN MatchesAny(u, include_globs)
    ELSE TRUE

(***************************************************************************)
(* get_robots_ok and RobotFileParser.can_fetch                             *)
(***************************************************************************)
\* what urlopen(robots_url) does inside rp.read():
\*   "parsed"    the file is read and parsed
\*   "http_401", "http_403", "http_404", "http_500"   urlopen raises HTTPError
\*   "raised"    urlopen raises URLError (host unreachable), which read() lets through
RobotsOutcomes == {"parsed", "http_401", "http_403", "http_404", "http_500", "raised"}

\* the robots.txt files: the Allow and Disallow lines of the entry that
\* decides for the agent "*", each with the path parse() hands to RuleLine;
\* an empty file, and the file  User-agent: * / Disallow: /b
RobotsRules == {<<>>, <<[path |-> <<"/", "b">>, allowance |-> FALSE]>>}

\* RuleLine(path, allowance), for a path urlparse accepts
RuleLine(path, allowance) ==
    [path |-> quote(urlunparse(UrlParseOf(path))),
     allowance |-> IF path = <<>> /\ ~allowance THEN TRUE ELSE allowance]

\* get_robots_ok(url, ignore) raises: urlparse(start_url) stands before the try
GetRobotsRaises(url, ignore) == ~ignore /\ UrlRaises(url)

\* the parser get_robots_ok returns: always_true is the can_fetch override of
\* ignore_robots; last_checked is set by parse() only
get_robots_ok(url, ignore, outcome, rules) ==
    IF ignore
    THEN [always_true |-> TRUE, disallow_all |-> FALSE, allow_all |-> FALSE,
          last_checked |-> FALSE, rulelines |-> <<>>, read |-> "skipped"]
    ELSE IF UrlRaises(url) THEN ValueError
    ELSE [always_true |-> FALSE,
          disallow_all |-> outcome \in {"http_401", "http_403"},
          allow_all |-> outcome = "http_404",
          last_checked |-> outcome = "parsed",
          rulelines |-> IF outcome = "parsed"
                        THEN [k \in 1..Len(rules) |->
                                RuleLine(rules[k].path, rules[k].allowance)]
                        ELSE <<>>,
          read |-> outcome]

\* can_fetch, from the parsed url p on: the url from its path on, put together
\* again and quoted; "/" when that is empty
RobotsPathParsed(p) ==
    LET u == quote(urlunparse([scheme |-> <<>>, netloc |-> <<>>, path |-> p.path,
                               params |-> p.params, query |-> p.query,
                               fragment |-> p.fragment]))
    IN  IF u = <<>> THEN <<"/">> ELSE u

\* the text can_fetch matches the rule lines against: the URL from its path
\* on, unquoted, parsed, put together again and quoted
RobotsPathOf(url) == RobotsPathParsed(UrlParseOf(unquote(url)))

\* RobotsPathOf of the URLs of the model, computed once
RobotsPaths == [u \in LinkUniverse |-> RobotsPathOf(u)]

RobotsPath(url) == IF url \in DOMAIN RobotsPaths THEN RobotsPaths[url] ELSE RobotsPathOf(url)

\* RuleLine.applies_to(filename)
RuleApplies(line, filename) == line.path = <<"*">> \/ StartsWith(filename, line.path)

\* Entry.allowance(filename): the first rule line that applies decides
RECURSIVE Allowance(_, _)
Allowance(rulelines, filename) ==
    IF rulelines = <<>> THEN TRUE
    ELSE IF RuleApplies(Head(rulelines), filename) THEN Head(rulelines).allowance
    ELSE Allowance(Tail(rulelines), filename)

\* rp.can_fetch("*", url) raises the ValueError of urlparse
CanFetchRaises(parser, url) ==
    /\ ~parser.always_true /\ ~parser.disallow_all /\ ~parser.allow_all
    /\ parser.last_checked
    /\ UrlRaises(unquote(url))

\* rp.can_fetch("*", url): ValueError, or the value returned
can_fetch(parser, url) ==
    IF parser.always_true THEN TRUE
    ELSE IF parser.disallow_all THEN FALSE
    ELSE IF parser.allow_all THEN TRUE
    ELSE IF ~parser.last_checked THEN FALSE
    ELSE IF UrlRaises(unquote(url)) THEN ValueError
    ELSE Allowance(parser.rulelines, RobotsPath(url))

(***************************************************************************)
(* URL suffix tests                                                        *)
(***************************************************************************)
BINARY_EXTS ==
    {<<".", "p", "n", "g">>, <<".", "j", "p", "g">>, <<".", "j", "p", "e", "g">>,
     <<".", "g", "i", "f">>, <<".", "b", "m", "p">>, <<".", "s", "v", "g">>,
     <<".", "i", "c", "o">>, <<".", "w", "e", "b", "p">>, <<".", "p", "d", "f">>,
     <<".", "z", "i", "p">>, <<".", "t", "a", "r">>, <<".", "g", "z">>,
     <<".", "7", "z">>, <<".", "m", "p", "3">>, <<".", "m", "p", "4">>,
     <<".", "m", "o", "v">>, <<".", "a", "v", "i">>, <<".", "m", "k", "v">>,
     <<".", "e", "x", "e">>, <<".", "d", "l", "l">>, <<".", "s", "o">>}

DOC_EXTS ==
    {<<".", "m", "d">>, <<".", "m", "a", "r", "k", "d", "o", "w", "n">>,
     <<".", "h", "t", "m", "l">>, <<".", "h", "t", "m">>, <<".", "t", "x", "t">>}

\* t.endswith(suf)
EndsWith(t, suf) ==
    Len(t) >= Len(suf) /\ SubSeq(t, Len(t) - Len(suf) + 1, Len(t)) = suf

\* PurePath(p).name: the last of the components of p that are neither empty
\* nor "."; empty when there is none
PathName(p) ==
    LET parts == SelectSeq(SplitAt(p, "/"), LAMBDA x : x # <<>> /\ x # <<".">>)
    IN  IF parts = <<>> THEN <<>> ELSE parts[Len(parts)]

\* PurePath.suffix, for the name of the path: its part from its last ".",
\* when that "." is neither its first nor its last character
NameSuffix(name) ==
    LET i == LastIndex(name, ".")
    IN  IF 1 < i /\ i < Len(name) THEN SubSeq(name, i, Len(name)) ELSE <<>>

\* Path(p).suffix
PathSuffix(p) == NameSuffix(PathName(p))

is_probably_binary(path) == PathSuffix(Lower(path)) \in BINARY_EXTS

HasDocExt(url) == \E ext \in DOC_EXTS : EndsWith(Lower(url), ext)

\* the kind of the record of url
KindOf(url) ==
    IF \E e \in {<<".", "m", "d">>, <<".", "m", "a", "r", "k", "d", "o", "w", "n">>} :
           EndsWith(Lower(url), e)
    THEN "markdown"
    ELSE IF EndsWith(Lower(url), <<".", "t", "x", "t">>) THEN "text"
    ELSE "html"

(***************************************************************************)
(* crawl                                                                   *)
(***************************************************************************)
\* *x.test*
GlobSite == <<"*", "x", ".", "t", "e", "s", "t", "*">>
\* */B
GlobB == <<"*", "/", "B">>
\* *s://*
GlobSecure == <<"*", "s", ":", "/", "/", "*">>

IncludeChoices == {<<>>, <<GlobSite>>, <<GlobSecure, GlobB>>}
ExcludeChoices == {<<>>, <<GlobB>>}

\* ---- bounds of the crawl inputs ----
MaxPages == 3        \* max_pages in 0..MaxPages

\* the link lists a page may carry: none; the same link twice; a link to
\* another host and one to another scheme; a link back to the start page and
\* one to an image; three same-host links
LinkLists ==
    {<<>>, <<UrlB, UrlB>>, <<UrlY, UrlH>>, <<UrlA, UrlP>>, <<UrlH, UrlB, UrlP>>}

\* what requests.get(url) and the processing of the response do: raise before
\* the record is appended (the GET times out or fails, the text cannot be
\* extracted or written), or answer with a Content-Type (text/html or not) and,
\* for html, the page's links. href_error: the href that follows the listed
\* links is one urljoin rejects with ValueError (an unclosed "[" in the host),
\* raised inside the link loop, after records.append
Responses ==
    {[raises |-> TRUE, html |-> FALSE, links |-> <<>>, href_error |-> FALSE],
     [raises |-> FALSE, html |-> FALSE, links |-> <<>>, href_error |-> FALSE]}
    \cup {[raises |-> FALSE, html |-> TRUE, links |-> ls, href_error |-> e] :
             ls \in LinkLists, e \in BOOLEAN}

CrIdle ==
    /\ cr_pc = "idle" /\ start_url = <<>> /\ max_pages = 0 /\ ignore_robots = FALSE
    /\ include = <<>> /\ exclude = <<>>
    /\ rp = get_robots_ok(<<>>, TRUE, "parsed", <<>>)
    /\ visited = {} /\ queue = <<>> /\ records = <<>> /\ evaluated = <<>>
    /\ fetched = <<>> /\ discovered = {} /\ errors = {}
    /\ enqueued = <<>> /\ dequeued = <<>>

\* visited = set(); queue = [start_url]
CrInit ==
    /\ cr_pc = "robots"
    /\ start_url \in StartUrls
    /\ max_pages \in 0..MaxPages
    /\ ignore_robots \in BOOLEAN
    /\ include \in IncludeChoices
    /\ exclude \in ExcludeChoices
    /\ rp = get_robots_ok(<<>>, TRUE, "parsed", <<>>)
    /\ visited = {}
    /\ queue = <<start_url>>
    /\ records = <<>>
    /\ evaluated = <<>>
    /\ fetched = <<>>
    /\ discovered = {}
    /\ errors = {}
    /\ enqueued = <<start_url>>
    /\ dequeued = <<>>

\* rp = get_robots_ok(start_url, ignore_robots); raw_dir.mkdir(...);
\* records = []. Both calls stand outside any try: the ValueError of
\* get_robots_ok and the OSError of mkdir (out_dir or out_dir/raw is a file,
\* or cannot be written) end crawl
CrawlRobots ==
    /\ cr_pc = "robots"
    /\ \E outcome \in RobotsOutcomes, rules \in RobotsRules, mkdir_raises \in BOOLEAN :
          IF GetRobotsRaises(start_url, ignore_robots)
          THEN rp' = rp /\ cr_pc' = "raised"
          ELSE /\ rp' = get_robots_ok(start_url, ignore_robots, outcome, rules)
               /\ cr_pc' = IF mkdir_raises THEN "raised" ELSE "loop"
    /\ UNCHANGED <<start_url, max_pages, ignore_robots, include, exclude, visited,
                   queue, records, evaluated, fetched, discovered, errors, enqueued,
                   dequeued>>
    /\ UNCHANGED <<ctVars, cbVars, fmVars, igVars>>

\* a bug the strict comparison prevents: one page more than the budget
LoopTestOffByOne(q, vis, mp) == q # <<>> /\ Cardinality(vis) <= mp

\* while queue and len(visited) < max_pages
LoopTest(q, vis, mp) == q # <<>> /\ Cardinality(vis) < mp

\* a bug the visited test prevents: a URL is evaluated every time it is dequeued
InVisitedNever(url, vis) == FALSE

\* if url in visited
InVisited(url, vis) == url \in vis

\* one of the tests between visited.add(url) and the fetch raises ValueError
AdmittedRaises(url) ==
    IF SameDomainRaises(start_url, url) THEN TRUE
    ELSE same_domain(start_url, url) /\ CanFetchRaises(rp, url)

\* the three tests between visited.add(url) and the fetch
Admitted(url) ==
    /\ ~AdmittedRaises(url)
    /\ same_domain(start_url, url)
    /\ can_fetch(rp, url)
    /\ should_keep_url(url, include, exclude)

\* the link loop ends with the ValueError of same_domain on one of the links
LinksRaise(ls, vis) ==
    \E k \in 1..Len(ls) : ls[k] \notin vis /\ SameDomainRaises(start_url, ls[k])

\* the links a fetched html page adds to the queue, in page order, up to the
\* first link on which same_domain raises
RECURSIVE Enqueue(_, _, _)
Enqueue(q, ls, vis) ==
    IF ls = <<>> THEN q
    ELSE IF Head(ls) \notin vis /\ SameDomainRaises(start_url, Head(ls)) THEN q
    ELSE Enqueue(IF Head(ls) \notin vis /\ same_domain(start_url, Head(ls))
                 THEN Append(q, Head(ls)) ELSE q,
                 Tail(ls), vis)

\* a bug queue.pop(0) prevents: queue.pop() takes the URL appended last, and
\* the traversal is depth-first
PopLast(q) == [url |-> q[Len(q)], rest |-> SubSeq(q, 1, Len(q) - 1)]

\* url = queue.pop(0): the URL at the head, and the queue that is left
Pop(q) == [url |-> Head(q), rest |-> Tail(q)]

\* an iteration that pops a URL already visited
CrawlSkipVisited ==
    /\ cr_pc = "loop"
    /\ LoopTest(queue, visited, max_pages)
    /\ InVisited(Pop(queue).url, visited)
    /\ queue' = Pop(queue).rest
    /\ dequeued' = Append(dequeued, Pop(queue).url)
    /\ UNCHANGED <<cr_pc, start_url, max_pages, ignore_robots, include, exclude, rp,
                   visited, records, evaluated, fetched, discovered, errors, enqueued>>
    /\ UNCHANGED <<ctVars, cbVars, fmVars, igVars>>

\* an iteration that marks the URL visited and drops it at one of the three tests
CrawlReject ==
    /\ cr_pc = "loop"
    /\ LoopTest(queue, visited, max_pages)
    /\ ~InVisited(Pop(queue).url, visited)
    /\ ~AdmittedRaises(Pop(queue).url)
    /\ ~Admitted(Pop(queue).url)
    /\ queue' = Pop(queue).rest
    /\ dequeued' = Append(dequeued, Pop(queue).url)
    /\ visited' = visited \cup {Pop(queue).url}
    /\ evaluated' = Append(evaluated, Pop(queue).url)
    /\ UNCHANGED <<cr_pc, start_url, max_pages, ignore_robots, include, exclude, rp,
                   records, fetched, discovered, errors, enqueued>>
    /\ UNCHANGED <<ctVars, cbVars, fmVars, igVars>>

\* an iteration that marks the URL visited and ends crawl with the ValueError
\* of same_domain or of rp.can_fetch, which stand outside the try
CrawlRaise ==
    /\ cr_pc = "loop"
    /\ LoopTest(queue, visited, max_pages)
    /\ ~InVisited(Pop(queue).url, visited)
    /\ AdmittedRaises(Pop(queue).url)
    /\ queue' = Pop(queue).rest
    /\ dequeued' = Append(dequeued, Pop(queue).url)
    /\ visited' = visited \cup {Pop(queue).url}
    /\ evaluated' = Append(evaluated, Pop(queue).url)
    /\ cr_pc' = "raised"
    /\ UNCHANGED <<start_url, max_pages, ignore_robots, include, exclude, rp,
                   records, fetched, discovered, errors, enqueued>>
    /\ UNCHANGED <<ctVars, cbVars, fmVars, igVars>>

\* a bug the order of the try block prevents: the record is appended before
\* the response is known to be usable
RecordsAfterAlways(recs, url, kind, r, skipped) ==
    Append(recs, [url |-> url, kind |-> kind])

\* records after the try block: an exception of the fetch or of the processing
\* (except Exception: pass) and the two continue statements leave it as it
\* was; otherwise records.append
RecordsAfter(recs, url, kind, r, skipped) ==
    IF r.raises \/ skipped THEN recs
    ELSE Append(recs, [url |-> url, kind |-> kind])

\* an iteration that fetches the URL
CrawlFetch ==
    /\ cr_pc = "loop"
    /\ LoopTest(queue, visited, max_pages)
    /\ ~InVisited(Pop(queue).url, visited)
    /\ Admitted(Pop(queue).url)
    /\ LET url == Pop(queue).url
           rest == Pop(queue).rest
           vis == visited \cup {url}
           doc == HasDocExt(url)
           binary == is_probably_binary(url)
           kind == KindOf(url)
       IN  /\ visited' = vis
           /\ dequeued' = Append(dequeued, url)
           /\ evaluated' = Append(evaluated, url)
           /\ fetched' = Append(fetched, url)
           /\ \E r \in Responses :
                LET skipped == (~r.html /\ ~doc) \/ binary
                IN  /\ records' = RecordsAfter(records, url, kind, r, skipped)
                    /\ IF r.raises \/ skipped
                       THEN /\ queue' = rest
                            /\ enqueued' = enqueued
                            /\ discovered' = discovered
                            /\ errors' = IF r.raises
                                         THEN errors \cup {<<url, "fetch">>}
                                         ELSE errors
                       ELSE /\ queue' = IF r.html
                                        THEN Enqueue(rest, r.links, vis)
                                        ELSE rest
                            /\ enqueued' = IF r.html
                                           THEN enqueued \o Enqueue(<<>>, r.links, vis)
                                           ELSE enqueued
                            /\ discovered' =
                                 IF r.html
                                 THEN discovered \cup {r.links[k] : k \in 1..Len(r.links)}
                                 ELSE discovered
                            /\ errors' = IF r.html /\ (r.href_error \/ LinksRaise(r.links, vis))
                                         THEN errors \cup {<<url, "links">>}
                                         ELSE errors
    /\ UNCHANGED <<cr_pc, start_url, max_pages, ignore_robots, include, exclude, rp>>
    /\ UNCHANGED <<ctVars, cbVars, fmVars, igVars>>

\* the loop test fails: return records
CrawlReturn ==
    /\ cr_pc = "loop"
    /\ ~LoopTest(queue, visited, max_pages)
    /\ cr_pc' = "done"
    /\ UNCHANGED <<start_url, max_pages, ignore_robots, include, exclude, rp, visited,
                   queue, records, evaluated, fetched, discovered, errors, enqueued,
                   dequeued>>
    /\ UNCHANGED <<ctVars, cbVars, fmVars, igVars>>

CrNext ==
    \/ CrawlRobots \/ CrawlSkipVisited \/ CrawlReject \/ CrawlRaise \/ CrawlFetch
    \/ CrawlReturn

(***************************************************************************)
(* formatter: clean_lines, strip_toc_blocks, dedupe_headings,              *)
(* promote_headings, detect_code_lang, wrap_code_blocks, format_markdown;  *)
(* frontmatter: wrap_code_blocks                                           *)
(***************************************************************************)
\* the patterns are plain phrases: re.search(p, low) is a substring test
JUNK_PATTERNS ==
    {<<"h", "o", "m", "e", " ", "p", "a", "g", "e">>,
     <<"s", "e", "a", "r", "c", "h">>,
     <<"n", "a", "v", "i", "g", "a", "t", "i", "o", "n">>,
     <<"i", "s", "s", "u", "e", "s">>,
     <<"g", "i", "t", "h", "u", "b">>,
     <<"s", "l", "a", "c", "k">>,
     <<"w", "a", "s", " ", "t", "h", "i", "s", " ", "p", "a", "g", "e", " ", "h", "e", "l", "p", "f", "u", "l">>,
     <<"c", "o", "p", "y">>,
     <<"a", "s", "k", " ", "a", "i">>,
     <<CommandKey>>,
     <<"a", "s", "s", "i", "s", "t", "a", "n", "t">>,
     <<"r", "e", "s", "p", "o", "n", "s", "e", "s", " ", "a", "r", "e", " ", "g", "e", "n", "e", "r", "a", "t", "e", "d">>,
     <<"#", "m", "y", "t", "h", "i", "c", " ", "c", "o", "m", "m", "u", "n", "i", "t", "y">>,
     <<"o", "n", " ", "t", "h", "i", "s", " ", "p", "a", "g", "e">>}

\* the tests of clean_lines that drop a line whatever came before it
IsJunkLine(line) ==
    \/ Strip(line) = <<>>
    \/ \E p \in JUNK_PATTERNS : Contains(Strip(Lower(line)), p)

\* clean_lines(lines); prev = <<>> stands for None
RECURSIVE CleanLoop(_, _, _)
CleanLoop(ls, prev, cleaned) ==
    IF ls = <<>> THEN cleaned
    ELSE LET line == Head(ls)
         IN  IF IsJunkLine(line) \/ (prev # <<>> /\ Strip(prev) = Strip(line))
             THEN CleanLoop(Tail(ls), prev, cleaned)
             ELSE CleanLoop(Tail(ls), line, Append(cleaned, line))

clean_lines(ls) == CleanLoop(ls, <<>>, <<>>)

WordChars == Letters \cup Digits \cup {"_"}

\* number of characters at the head of t that are in the set cs
RECURSIVE SpanOf(_, _)
SpanOf(t, cs) ==
    IF t = <<>> \/ Head(t) \notin cs THEN 0 ELSE 1 + SpanOf(Tail(t), cs)

\* re.match(r"^\d+\.\s+\w+", line.strip())
IsNumberedItem(line) ==
    LET t == Strip(line)
        d == SpanOf(t, Digits)
        rest == SubSeq(t, d + 2, Len(t))
        w == SpanOf(rest, Whitespace)
    IN  /\ d >= 1
        /\ Len(t) > d /\ t[d + 1] = "."
        /\ w >= 1
        /\ Len(rest) > w /\ rest[w + 1] \in WordChars

\* strip_toc_blocks(lines, min_run=5)
MinRun == 5

\* what becomes of the buffered run when it ends: dropped when it holds
\* min_run lines or more, kept otherwise
FlushRun(cleaned, buf) == IF Len(buf) >= MinRun THEN cleaned ELSE cleaned \o buf

RECURSIVE TocLoop(_, _, _)
TocLoop(ls, cleaned, buf) ==
    IF ls = <<>> THEN FlushRun(cleaned, buf)
    ELSE IF IsNumberedItem(Head(ls))
         THEN TocLoop(Tail(ls), cleaned, Append(buf, Head(ls)))
         ELSE TocLoop(Tail(ls), Append(FlushRun(cleaned, buf), Head(ls)), <<>>)

strip_toc_blocks(ls) == TocLoop(ls, <<>>, <<>>)

\* line.strip().startswith("#")
IsHeadingLine(line) == StartsWith(Strip(line), <<"#">>)

\* dedupe_headings(lines): seen holds the heading lines as they stand, untrimmed
RECURSIVE DedupeLoop(_, _, _)
DedupeLoop(ls, seen, deduped) ==
    IF ls = <<>> THEN deduped
    ELSE LET line == Head(ls)
         IN  IF IsHeadingLine(line)
             THEN IF line \in seen
                  THEN DedupeLoop(Tail(ls), seen, deduped)
                  ELSE DedupeLoop(Tail(ls), seen \cup {line}, Append(deduped, line))
             ELSE DedupeLoop(Tail(ls), seen, Append(deduped, line))

dedupe_headings(ls) == DedupeLoop(ls, {}, <<>>)

SectionLabels ==
    {<<"o", "v", "e", "r", "v", "i", "e", "w">>,
     <<"r", "e", "s", "e", "r", "v", "e", "d", " ", "k", "e", "y", "w", "o", "r", "d", "s">>,
     <<"p", "a", "y", "l", "o", "a", "d", "t", "y", "p", "e">>,
     <<"m", "e", "s", "s", "a", "g", "e", " ", "k", "e", "y", "w", "o", "r", "d", "s">>,
     <<"w", "a", "l", "k", "t", "h", "r", "o", "u", "g", "h">>}

\* re.match(r"^(overview|...|walkthrough)", line.strip(), re.I)
IsSectionLabel(line) ==
    \E l \in SectionLabels : StartsWith(Lower(Strip(line)), l)

\* promote_headings(lines)
promote_headings(ls) ==
    [k \in 1..Len(ls) |->
        IF IsSectionLabel(ls[k]) THEN <<"#", "#", " ">> \o Strip(ls[k]) ELSE ls[k]]

\* detect_code_lang(block)
detect_code_lang(block) ==
    LET b == Lower(Strip(block))
    IN  IF \/ StartsWith(b, <<"{">>) \/ StartsWith(b, <<"[">>)
           \/ (Contains(b, <<":">>) /\ Contains(b, <<"{">>))
        THEN <<"j", "s", "o", "n">>
        ELSE IF StartsWith(b, <<"$">>) \/ Contains(b, <<" ", "s", "u", "d", "o", " ">>)
        THEN <<"b", "a", "s", "h">>
        ELSE IF \/ Contains(b, <<"f", "u", "n", "c", " ">>)
                \/ Contains(b, <<"p", "a", "c", "k", "a", "g", "e", " ", "m", "a", "i", "n">>)
        THEN <<"g", "o">>
        ELSE IF \/ Contains(b, <<"d", "e", "f", " ">>)
                \/ Contains(b, <<"i", "m", "p", "o", "r", "t", " ">>)
                \/ Contains(b, <<"a", "s", "y", "n", "c", " ", "d", "e", "f">>)
        THEN <<"p", "y", "t", "h", "o", "n">>
        ELSE IF \/ StartsWith(b, <<"f", "r", "o", "m", " ">>)
                \/ StartsWith(b, <<"r", "u", "n", " ">>)
                \/ StartsWith(b, <<"c", "m", "d", " ">>)
        THEN <<"d", "o", "c", "k", "e", "r", "f", "i", "l", "e">>
        ELSE <<"t", "e", "x", "t">>

\* the labelled block that replaces the placeholder: out[-1] = fence + lang;
\* out.extend(buffer); out.append(fence)
CloseBlock(out, buf) ==
    [out EXCEPT ![Len(out)] = Fence \o detect_code_lang(Join(buf))] \o buf \o <<Fence>>

\* the end of wrap_code_blocks: if buffer: (close the unterminated block)
WrapEnd(out, buf) ==
    IF buf # <<>> THEN CloseBlock(out, buf) ELSE out

\* the loop of wrap_code_blocks over text.splitlines()
RECURSIVE WrapLoop(_, _, _, _)
WrapLoop(ls, out, inside, buf) ==
    IF ls = <<>> THEN WrapEnd(out, buf)
    ELSE LET line == Head(ls)
         IN  IF IsFenceLine(line)
             THEN IF inside
                  THEN WrapLoop(Tail(ls), CloseBlock(out, buf), FALSE, <<>>)
                  ELSE WrapLoop(Tail(ls), Append(out, Fence), TRUE, <<>>)
             ELSE IF inside
                  THEN WrapLoop(Tail(ls), out, inside, Append(buf, line))
                  ELSE WrapLoop(Tail(ls), Append(out, line), inside, buf)

\* formatter.wrap_code_blocks(text)
wrap_code_blocks(t) == Join(WrapLoop(SplitLines(t), <<>>, FALSE, <<>>))

\* text.count(three backticks): occurrences counted from the left, not overlapping
RECURSIVE CountFences(_)
CountFences(t) ==
    IF Len(t) < 3 THEN 0
    ELSE IF SubSeq(t, 1, 3) = Fence THEN 1 + CountFences(SubSeq(t, 4, Len(t)))
    ELSE CountFences(Tail(t))

\* the pattern of a fence, any whitespace and "{" matches at the start of t
FenceBraceAt(t) ==
    /\ StartsWith(t, Fence)
    /\ Len(t) > 3 + SpanOf(SubSeq(t, 4, Len(t)), Whitespace)
    /\ t[4 + SpanOf(SubSeq(t, 4, Len(t)), Whitespace)] = "{"

\* re.sub of a fence, any whitespace and "{" by the fence, json, "\n" and "{":
\* a match is replaced and the search goes on after it; where there is no
\* match the search goes on one character further
RECURSIVE LabelJson(_)
LabelJson(t) ==
    IF t = <<>> THEN <<>>
    ELSE IF FenceBraceAt(t)
         THEN Fence \o <<"j", "s", "o", "n", "\n", "{">>
              \o LabelJson(SubSeq(t, 5 + SpanOf(SubSeq(t, 4, Len(t)), Whitespace), Len(t)))
         ELSE <<Head(t)>> \o LabelJson(Tail(t))

\* frontmatter.wrap_code_blocks(text)
frontmatter_wrap_code_blocks(t) ==
    LabelJson(IF CountFences(t) % 2 # 0 THEN t \o <<"\n">> \o Fence ELSE t)

\* tools/clean_md.remove_toc_blocks(lines, min_run=5, max_len=40)
min_run == 5
max_len == 40

\* the test of remove_toc_blocks for a short line
IsShortLine(line) == Len(Strip(line)) <= max_len /\ ~IsFenceLine(line)

\* the loop of remove_toc_blocks: a short line is buffered and the buffer is
\* emptied as soon as it holds min_run lines; any other line flushes the
\* buffer into cleaned and follows it; the function returns cleaned, whatever
\* the buffer holds at the end
RECURSIVE RemoveTocLoop(_, _, _)
RemoveTocLoop(ls, cleaned, buf) ==
    IF ls = <<>> THEN cleaned
    ELSE IF IsShortLine(Head(ls))
         THEN RemoveTocLoop(Tail(ls), cleaned,
                            IF Len(buf) + 1 >= min_run THEN <<>> ELSE Append(buf, Head(ls)))
         ELSE RemoveTocLoop(Tail(ls), Append(cleaned \o buf, Head(ls)), <<>>)

remove_toc_blocks(ls) == RemoveTocLoop(ls, <<>>, <<>>)

\* ---- bounds of the formatter inputs ----
MaxFmLines == 4      \* raw texts of up to this many lines

\* the lines a raw text is made of: prose, a section label, the heading the
\* label is promoted to, a fence, a numbered item, a json line, an indented prose line
FmLineSet ==
    {<<"x">>, <<"O", "v", "e", "r", "v", "i", "e", "w">>, <<"#", "#", " ">> \o <<"O", "v", "e", "r", "v", "i", "e", "w">>, Fence,
     <<"1", ".", " ", "a">>, JsonLine, <<" ", "x">>}

\* a run of n numbered items, no two neighbours alike, and a prose line
TocItems == <<"1", "2", "3", "4", "5", "6">>
TocPage(n) == Join([k \in 1..n |-> <<TocItems[k], ".", " ", "a">>] \o <<<<"x">>>>)

\* texts with a run of four or five backticks before a "{"
LongFenceTexts ==
    {<<Backtick>> \o Fence \o <<"{">>,
     <<Backtick, Backtick>> \o Fence \o <<"{">>,
     <<Backtick>> \o Fence \o <<" ", "{">>,
     <<Backtick>> \o Fence \o <<"{", "a">>,
     <<Backtick>> \o Fence \o <<"{", "\n">>}

FmTexts ==
    {Join(ls) : ls \in UNION {[1..n -> FmLineSet] : n \in 0..MaxFmLines}}
    \cup {TocPage(MinRun - 1), TocPage(MinRun), <<"x", "\n">> \o TocPage(MinRun)}
    \cup LongFenceTexts

FmOps == {"format_markdown", "wrap_code_blocks", "frontmatter.wrap_code_blocks",
          "clean_nav_footer_noise"}

MaxTocLines == 6     \* remove_toc_blocks: lists of up to this many lines

\* the lines given to remove_toc_blocks: a short line, a fence, and a line of
\* more than max_len characters
LongLine == Rep("x", max_len + 1)
TocLineSet == {<<"a">>, Fence, LongLine}
TocTexts == {Join(ls) : ls \in UNION {[1..n -> TocLineSet] : n \in 0..MaxTocLines}}

FmInputs ==
    {<<op, txt>> : op \in FmOps, txt \in FmTexts}
    \cup {<<"remove_toc_blocks", txt>> : txt \in TocTexts}

FmIdle ==
    /\ fm_op = "none" /\ fm_pc = "idle" /\ fm_in = <<>> /\ fm_is_md = FALSE
    /\ fm_lines = <<>> /\ fm_out = <<>>

FmInit ==
    /\ \E inp \in FmInputs :
        /\ fm_op = inp[1]
        /\ fm_in = inp[2]
    /\ fm_is_md \in (IF fm_op = "format_markdown" THEN BOOLEAN ELSE {FALSE})
    /\ fm_pc = "call"
    /\ fm_lines = <<>>
    /\ fm_out = <<>>

\* format_markdown, source.endswith(".md"): body = raw_text.strip()
FormatPassThrough ==
    /\ fm_op = "format_markdown" /\ fm_pc = "call" /\ fm_is_md
    /\ fm_out' = Strip(fm_in)
    /\ fm_pc' = "done"
    /\ UNCHANGED <<fm_op, fm_in, fm_is_md, fm_lines>>
    /\ UNCHANGED <<ctVars, cbVars, crVars, igVars>>

\* lines = raw_text.splitlines(); lines = clean_lines(lines)
FormatClean ==
    /\ fm_op = "format_markdown" /\ fm_pc = "call" /\ ~fm_is_md
    /\ fm_lines' = clean_lines(SplitLines(fm_in))
    /\ fm_pc' = "cleaned"
    /\ UNCHANGED <<fm_op, fm_in, fm_is_md, fm_out>>
    /\ UNCHANGED <<ctVars, cbVars, crVars, igVars>>

\* lines = strip_toc_blocks(lines)
FormatStripToc ==
    /\ fm_pc = "cleaned"
    /\ fm_lines' = strip_toc_blocks(fm_lines)
    /\ fm_pc' = "stripped"
    /\ UNCHANGED <<fm_op, fm_in, fm_is_md, fm_out>>
    /\ UNCHANGED <<ctVars, cbVars, crVars, igVars>>

\* lines = dedupe_headings(lines)
FormatDedupe ==
    /\ fm_pc = "stripped"
    /\ fm_lines' = dedupe_headings(fm_lines)
    /\ fm_pc' = "deduped"
    /\ UNCHANGED <<fm_op, fm_in, fm_is_md, fm_out>>
    /\ UNCHANGED <<ctVars, cbVars, crVars, igVars>>

\* lines = promote_headings(lines)
FormatPromote ==
    /\ fm_pc = "deduped"
    /\ fm_lines' = promote_headings(fm_lines)
    /\ fm_pc' = "promoted"
    /\ UNCHANGED <<fm_op, fm_in, fm_is_md, fm_out>>
    /\ UNCHANGED <<ctVars, cbVars, crVars, igVars>>

\* body = "\n".join(lines); body = wrap_code_blocks(body); ... body.strip()
FormatWrap ==
    /\ fm_pc = "promoted"
    /\ fm_out' = Strip(wrap_code_blocks(Join(fm_lines)))
    /\ fm_pc' = "done"
    /\ UNCHANGED <<fm_op, fm_in, fm_is_md, fm_lines>>
    /\ UNCHANGED <<ctVars, cbVars, crVars, igVars>>

\* a call of formatter.wrap_code_blocks on the text as it stands
WrapCall ==
    /\ fm_op = "wrap_code_blocks" /\ fm_pc = "call"
    /\ fm_out' = wrap_code_blocks(fm_in)
    /\ fm_pc' = "done"
    /\ UNCHANGED <<fm_op, fm_in, fm_is_md, fm_lines>>
    /\ UNCHANGED <<ctVars, cbVars, crVars, igVars>>

\* a call of frontmatter.wrap_code_blocks on the text as it stands
FrontmatterWrapCall ==
    /\ fm_op = "frontmatter.wrap_code_blocks" /\ fm_pc = "call"
    /\ fm_out' = frontmatter_wrap_code_blocks(fm_in)
    /\ fm_pc' = "done"
    /\ UNCHANGED <<fm_op, fm_in, fm_is_md, fm_lines>>
    /\ UNCHANGED <<ctVars, cbVars, crVars, igVars>>

\* a call of text_utils.clean_nav_footer_noise on the text
CleanNoiseCall ==
    /\ fm_op = "clean_nav_footer_noise" /\ fm_pc = "call"
    /\ fm_out' = clean_nav_footer_noise(fm_in)
    /\ fm_pc' = "done"
    /\ UNCHANGED <<fm_op, fm_in, fm_is_md, fm_lines>>
    /\ UNCHANGED <<ctVars, cbVars, crVars, igVars>>

\* a call of tools/clean_md.remove_toc_blocks on the lines of the text
RemoveTocCall ==
    /\ fm_op = "remove_toc_blocks" /\ fm_pc = "call"
    /\ fm_lines' = remove_toc_blocks(SplitLines(fm_in))
    /\ fm_pc' = "done"
    /\ UNCHANGED <<fm_op, fm_in, fm_is_md, fm_out>>
    /\ UNCHANGED <<ctVars, cbVars, crVars, igVars>>

FmNext ==
    \/ FormatPassThrough \/ FormatClean \/ FormatStripToc \/ FormatDedupe
    \/ FormatPromote \/ FormatWrap \/ WrapCall \/ FrontmatterWrapCall
    \/ CleanNoiseCall \/ RemoveTocCall

(***************************************************************************)
(* cli: url_to_filename, main (docs mode: embedding batches, upsert,       *)
(* Markdown export); embeddings.embed_ollama                               *)
(***************************************************************************)
\* t.strip("/")
RECURSIVE StripSlashes(_)
StripSlashes(t) ==
    IF t = <<>> THEN t
    ELSE IF Head(t) = "/" THEN StripSlashes(Tail(t))
    ELSE IF t[Len(t)] = "/" THEN StripSlashes(SubSeq(t, 1, Len(t) - 1))
    ELSE t

\* url_to_filename(url): ValueError when urlparse raises it, or the name
url_to_filename(url) ==
    LET path == StripSlashes(UrlPath(url))
    IN  IF UrlRaises(url) THEN ValueError
        ELSE IF path = <<>> THEN <<"i", "n", "d", "e", "x">>
        ELSE [k \in 1..Len(path) |-> IF path[k] = "/" THEN "_" ELSE path[k]]

\* https://x.test/a/b
UrlSub == UrlA \o <<"/", "b">>
\* https://x.test/a_b
UrlFlat == UrlA \o <<"_", "b">>

\* ---- bounds of the ingestion inputs ----
MaxSources == 2      \* crawl returned up to this many page records
MaxBatch == 2        \* --batch-size in 1..MaxBatch

\* the URLs of the records crawl returned: all on one host, as same_domain
\* admits them
IgSources == {UrlB, UrlH, UrlSub, UrlFlat}

\* how many chunks chunk_docs made of one page
PageChunkCounts == {0, 1, 2}

\* raw_pages as <<url, number of chunks>>, no URL twice
IgPageLists ==
    {ps \in UNION {[1..n -> IgSources \X PageChunkCounts] : n \in 0..MaxSources} :
        \A i, j \in 1..Len(ps) : i # j => ps[i][1] # ps[j][1]}

\* the list chunks that main builds from raw_pages (lines 129-141)
RECURSIVE ChunksOf(_)
ChunksOf(ps) ==
    IF ps = <<>> THEN <<>>
    ELSE [i \in 1..Head(ps)[2] |-> [source |-> Head(ps)[1], chunk_id |-> i - 1]]
         \o ChunksOf(Tail(ps))

\* embed_ollama returns one entry per text: a vector, or None for an item
\* whose request failed
EmbedResults(n) == [1..n -> {"vector", "null"}]

IgIdle ==
    /\ ig_pc = "idle" /\ ig_chunks = <<>> /\ batch_size = 1 /\ use_chroma = FALSE
    /\ ig_i = 0 /\ rows = <<>> /\ upserts = <<>> /\ jsonl = <<>> /\ md = <<>>

MaxRows == 3         \* build_chroma, write_jsonl: lists of up to this many rows

\* the embedding of a row handed to storage: a vector, None, or "absent"
\* for a row without the key
StorageEmbeddings == {"vector", "null", "absent"}

\* the lists of rows handed to build_chroma and write_jsonl
StorageRowLists ==
    UNION {{[k \in 1..n |-> [source |-> UrlB, chunk_id |-> k - 1, embedding |-> e[k]]] :
              e \in [1..n -> StorageEmbeddings]} : n \in 0..MaxRows}

\* entries.jsonl as an earlier run left it
OldJsonl == <<[source |-> UrlH, chunk_id |-> 0, embedding |-> "vector"]>>

\* main at the start of its batch loop: entries.jsonl is open and empty
IgInitMain ==
    /\ \E ps \in IgPageLists : ig_chunks = ChunksOf(ps)
    /\ batch_size \in 1..MaxBatch
    /\ use_chroma \in BOOLEAN
    /\ ig_pc = "embed"
    /\ ig_i = 0
    /\ rows = <<>>
    /\ upserts = <<>>
    /\ jsonl = <<>>
    /\ md = <<>>

\* a call of storage.build_chroma(out_dir, rows, collection_name, use_chroma)
\* or of storage.write_jsonl(path, rows)
IgInitStorage ==
    /\ ig_pc \in {"build_chroma", "write_jsonl"}
    /\ rows \in StorageRowLists
    /\ use_chroma \in BOOLEAN
    /\ jsonl \in {<<>>, OldJsonl}
    /\ ig_chunks = <<>> /\ batch_size = 1 /\ ig_i = 0
    /\ upserts = <<>> /\ md = <<>>

IgInit == IgInitMain \/ IgInitStorage

\* the entries main hands to col.upsert for one batch: every row of the batch,
\* with its embedding as embed_ollama returned it
UpsertArgs(batch_rows) == batch_rows

\* one iteration of the batch loop (lines 164-184). The vector store is a
\* library outside the repository: handed a null vector it either raises,
\* which ends main, or accepts the call
EmbedBatch ==
    /\ ig_pc = "embed"
    /\ ig_i < Len(ig_chunks)
    /\ LET batch == SubSeq(ig_chunks, ig_i + 1, Min(ig_i + batch_size, Len(ig_chunks)))
       IN  \E embs \in EmbedResults(Len(batch)) :
             LET batch_rows == [k \in 1..Len(batch) |->
                                  [source |-> batch[k].source,
                                   chunk_id |-> batch[k].chunk_id,
                                   embedding |-> embs[k]]]
             IN  /\ rows' = rows \o batch_rows
                 /\ jsonl' = jsonl \o batch_rows
                 /\ IF use_chroma
                    THEN /\ upserts' = Append(upserts, UpsertArgs(batch_rows))
                         /\ \E raised \in BOOLEAN :
                              /\ raised => \E k \in 1..Len(embs) : embs[k] = "null"
                              /\ ig_pc' = IF raised THEN "failed" ELSE "embed"
                    ELSE /\ upserts' = upserts
                         /\ ig_pc' = "embed"
    /\ ig_i' = ig_i + batch_size
    /\ UNCHANGED <<ig_chunks, batch_size, use_chroma, md>>
    /\ UNCHANGED <<ctVars, cbVars, crVars, fmVars>>

\* the Markdown export (lines 186-243): one open(md_path, "w") per source of
\* rows, in the order of a set; of two sources with one file name the one
\* written last stays. md maps each file name to the source of its content
ExportMarkdown ==
    /\ ig_pc = "embed"
    /\ ig_i >= Len(ig_chunks)
    /\ LET all_sources == {rows[k].source : k \in 1..Len(rows)}
           names == {url_to_filename(src) : src \in all_sources}
       IN  md' \in {f \in [names -> all_sources] : \A n \in names : url_to_filename(f[n]) = n}
    /\ ig_pc' = "done"
    /\ UNCHANGED <<ig_chunks, batch_size, use_chroma, ig_i, rows, upserts, jsonl>>
    /\ UNCHANGED <<ctVars, cbVars, crVars, fmVars>>

\* the rows build_chroma keeps: those with a key "embedding" that is not None
EmbeddedRows(rs) == SelectSeq(rs, LAMBDA r : r.embedding \notin {"absent", "null"})

\* storage.build_chroma(out_dir, rows, collection_name, use_chroma): nothing
\* without use_chroma; else one col.upsert of the rows that have a vector,
\* when there is one
BuildChroma ==
    /\ ig_pc = "build_chroma"
    /\ upserts' = IF use_chroma /\ EmbeddedRows(rows) # <<>>
                  THEN Append(upserts, EmbeddedRows(rows))
                  ELSE upserts
    /\ ig_pc' = "returned"
    /\ UNCHANGED <<ig_chunks, batch_size, use_chroma, ig_i, rows, jsonl, md>>
    /\ UNCHANGED <<ctVars, cbVars, crVars, fmVars>>

\* storage.write_jsonl(path, rows): the file is opened with "w" and gets one
\* line per row
WriteJsonl ==
    /\ ig_pc = "write_jsonl"
    /\ jsonl' = rows
    /\ ig_pc' = "returned"
    /\ UNCHANGED <<ig_chunks, batch_size, use_chroma, ig_i, rows, upserts, md>>
    /\ UNCHANGED <<ctVars, cbVars, crVars, fmVars>>

IgNext == EmbedBatch \/ ExportMarkdown \/ BuildChroma \/ WriteJsonl

(***************************************************************************)
(* Specifications: one per operation, and all of them side by side         *)
(***************************************************************************)
InitChunkText == CtInit /\ CbIdle /\ CrIdle /\ FmIdle /\ IgIdle
SpecChunkText == InitChunkText /\ [][CtNext]_vars

\* the code runs on until it returns: weak fairness of CtNext. It is WF_vars(CtNext)
\* with ENABLED <<CtNext>>_vars written out as the test of ct_pc that enables a
\* step, and <<CtNext>>_vars as a change of vars, which only CtNext makes here
CtEnabled == ct_pc \in {"call", "loop"}
FairChunkText == SpecChunkText /\ ([]<>(~CtEnabled) \/ []<><<TRUE>>_vars)

InitBlocks == CbInit /\ CtIdle /\ CrIdle /\ FmIdle /\ IgIdle
SpecBlocks == InitBlocks /\ [][CbNext]_vars

InitCrawl == CrInit /\ CtIdle /\ CbIdle /\ FmIdle /\ IgIdle
SpecCrawl == InitCrawl /\ [][CrNext]_vars

\* the crawl loop runs on until its test fails: weak fairness of CrNext, written
\* as for chunk_text (in the loop one of the four iterations is always enabled)
CrEnabled == cr_pc \in {"robots", "loop"}
FairCrawl == SpecCrawl /\ ([]<>(~CrEnabled) \/ []<><<TRUE>>_vars)

InitFormat == FmInit /\ CtIdle /\ CbIdle /\ CrIdle /\ IgIdle
SpecFormat == InitFormat /\ [][FmNext]_vars

InitIngest == IgInit /\ CtIdle /\ CbIdle /\ CrIdle /\ FmIdle
SpecIngest == InitIngest /\ [][IgNext]_vars

Init == InitChunkText \/ InitBlocks \/ InitCrawl \/ InitFormat \/ InitIngest

Next == CtNext \/ CbNext \/ CrNext \/ FmNext \/ IgNext

Spec == Init /\ [][Next]_vars

(***************************************************************************)
(* Properties                                                              *)
(***************************************************************************)
Range(q) == {q[k] : k \in 1..Len(q)}

NoDuplicates(q) == \A i, j \in 1..Len(q) : i # j => q[i] # q[j]

\* ---------------------------------------------------------------- C1
\* C1: chunk_text terminates on every input, for every max_chars >= 1 and
\* every overlap >= 0: each loop iteration leaves the window start strictly
\* greater than it found it, and the call reaches its return.
\* Checked under FairChunkText.
ChunkTextTerminates ==
    /\ [][(ct_pc = "loop" /\ ct_pc' = "loop") => start' > start]_vars
    /\ <>(ct_pc = "done")

\* the pathological case: overlap >= max_chars, and the loop ran more than once
ChunkTextPathologicalDone ==
    ct_pc = "done" /\ overlap >= max_chars /\ Len(windows) >= 2

\* ---------------------------------------------------------------- C2
\* the closed fenced blocks of a list of lines, as <<opening, closing>> line
\* numbers: an opening fence is a fence line preceded by an even number of
\* fence lines, its closing fence is the next fence line
ClosedBlocks(ls) ==
    LET fences == {i \in 1..Len(ls) : IsFenceLine(ls[i])}
    IN  {<<i, j>> \in fences \X fences :
            /\ i < j
            /\ Cardinality({k \in fences : k < i}) % 2 = 0
            /\ \A k \in fences : ~(i < k /\ k < j)}

BlockText(ls, b) == Join(SubSeq(ls, b[1], b[2]))

\* C2: when chunk_with_code_blocks returns, every closed fenced block of its
\* input that is longer than max_chars lies whole, from its opening to its
\* closing fence line, in exactly one fragment.
FencedBlockWhole ==
    cb_pc = "done" =>
        LET ls == SplitLines(cb_in)
        IN  \A b \in ClosedBlocks(ls) :
                Len(BlockText(ls, b)) > cb_max =>
                    Cardinality({k \in 1..Len(cb_chunks) :
                                    Contains(cb_chunks[k], BlockText(ls, b))}) = 1

\* ---------------------------------------------------------------- C3
\* C3: when chunk_text returns and 0 <= overlap < max_chars, every
\* non-whitespace position of the trimmed input lies in the [start, cut) range
\* of some loop iteration.
NoSpanSkipped ==
    (ct_pc = "done" /\ 0 <= overlap /\ overlap < max_chars) =>
        \A p \in 0..(Len(s) - 1) :
            ~IsSpace(s[p + 1]) =>
                \E k \in 1..Len(windows) : windows[k][1] <= p /\ p < windows[k][2]

\* ---------------------------------------------------------------- C4
AllFragmentsNonEmpty ==
    /\ cb_chunks # <<>>
    /\ \A k \in 1..Len(cb_chunks) : Strip(cb_chunks[k]) # <<>>

\* C4: when chunk_with_code_blocks returns for an input that is non-empty
\* after trimming, with overlap < max_chars, the result is a non-empty list of
\* fragments that are non-empty after trimming.
NonEmptyInputNonEmptyFragments ==
    (cb_pc = "done" /\ Strip(cb_in) # <<>> /\ cb_overlap < cb_max) => AllFragmentsNonEmpty

\* ---------------------------------------------------------------- C5
\* C5: in crawl, no URL is passed to the same_domain / robots / glob tests more
\* than once, and no step removes a URL from the visited set.
EvaluatedAtMostOnce ==
    [][visited \subseteq visited' /\ NoDuplicates(evaluated')]_vars

\* a URL enqueued several times: one copy was evaluated, another is still queued
QueuedAgainAfterVisit ==
    /\ cr_pc = "loop"
    /\ \E k \in 1..Len(queue) : queue[k] \in visited /\ queue[k] \in Range(evaluated)

\* ---------------------------------------------------------------- C6
\* C6: at every point of a crawl the visited URLs, the page fetches and the
\* collected records each number at most max_pages.
WithinBudget ==
    /\ Cardinality(visited) <= max_pages
    /\ Len(fetched) <= max_pages
    /\ Len(records) <= max_pages

\* the budget is used up while the frontier still holds URLs
BudgetExhausted ==
    /\ cr_pc = "done"
    /\ max_pages > 0
    /\ Cardinality(visited) = max_pages
    /\ Len(records) = max_pages
    /\ queue # <<>>

\* ---------------------------------------------------------------- C7
RecordUrls == {records[k].url : k \in 1..Len(records)}

\* C7: a discovered link whose host differs from the start URL's is never
\* fetched and never recorded.
OtherHostNeverFetched ==
    \A u \in discovered :
        UrlNetloc(u) # UrlNetloc(start_url) =>
            u \notin Range(fetched) /\ u \notin RecordUrls

\* a fetched page linked to https://y.test/b and the crawl ran to its end
OtherHostLinkSeen ==
    /\ cr_pc = "done"
    /\ UrlY \in discovered
    /\ Len(records) >= 2

\* ---------------------------------------------------------------- C8
\* C8: every URL the crawl enqueues, fetches or records has the scheme and the
\* host[:port] of the start URL.
SameOriginOnly ==
    \A u \in Range(queue) \cup Range(fetched) \cup RecordUrls :
        UrlScheme(u) = UrlScheme(start_url) /\ UrlNetloc(u) = UrlNetloc(start_url)

\* ---------------------------------------------------------------- C9
\* C9: should_keep_url is false for every URL that matches an exclude glob,
\* whatever the include list holds, and the crawl neither fetches nor records
\* such a URL.
ExcludeWins ==
    /\ \A u \in LinkUniverse :
          MatchesAny(u, exclude) => ~should_keep_url(u, include, exclude)
    /\ \A u \in Range(fetched) \cup RecordUrls : ~MatchesAny(u, exclude)

\* a URL matching both an include and an exclude glob was evaluated and dropped
BothGlobsMatchedDropped ==
    \E u \in Range(evaluated) :
        /\ MatchesAny(u, include)
        /\ MatchesAny(u, exclude)
        /\ u \notin Range(fetched)

\* ---------------------------------------------------------------- C10
\* C10: with robots enforcement enabled, when the fetch of robots.txt fails
\* (the file is missing, or the host is unreachable and the read raises), the
\* policy allows every URL.
RobotsFailureAllowsAll ==
    (cr_pc # "robots" /\ ~ignore_robots /\ rp.read \in {"http_404", "raised"}) =>
        \A u \in LinkUniverse : can_fetch(rp, u)

\* C11: an iteration whose fetch or processing raises (timeout, network,
\* decode or write error: everything before records.append) adds no record,
\* keeps every earlier record, leaves the rest of the queue as it was and
\* stays in the loop
FailedPageSkipped ==
    [][(\E u \in visited' : <<u, "fetch">> \in errors' \ errors)
         => /\ records' = records
            /\ queue' = Tail(queue)
            /\ cr_pc' = "loop"]_vars

\* a page was recorded, the next one fetched raised, and a later one was
\* recorded all the same
RecordedAroundFailure ==
    \E i, j, k \in 1..Len(fetched) :
        /\ i < j /\ j < k
        /\ fetched[i] \in RecordUrls
        /\ <<fetched[j], "fetch">> \in errors
        /\ fetched[j] \notin RecordUrls
        /\ fetched[k] \in RecordUrls

\* C12: when the fetch of the start URL fails, the crawl does not return
\* normally to its caller
StartFailureSurfaced ==
    <<start_url, "fetch">> \in errors => cr_pc # "done"

\* C13: the crawl ends (it returns, or a call outside the try of the loop
\* raises), and when its loop has stopped the queue is empty or the number of
\* visited URLs equals max_pages
CrawlTerminates ==
    /\ <>(cr_pc \in {"done", "raised"})
    /\ [](cr_pc = "done" => (queue = <<>> \/ Cardinality(visited) = max_pages))

\* a site whose pages link back to the start page was crawled to the end of
\* the budget with URLs still queued
CyclicSiteStoppedAtBudget ==
    /\ cr_pc = "done"
    /\ UrlA \in discovered
    /\ queue # <<>>
    /\ Cardinality(visited) = max_pages
    /\ max_pages > 1

\* C14: chunk_text on the 2500-character text with max_chars=1000 and
\* overlap=150 returns exactly 3 chunks, each window after the first starting
\* 150 characters before the previous cut, the last one ending at the end of
\* the input, and no window following one that reached the end
PlainBlockThreeChunks ==
    (ct_pc = "done" /\ Len(ct_in) = 2500 /\ max_chars = 1000 /\ overlap = 150)
        => /\ Len(chunks) = 3
           /\ Len(windows) = 3
           /\ \A k \in 2..Len(windows) : windows[k][1] = windows[k - 1][2] - 150
           /\ windows[Len(windows)][2] = 2500
           /\ \A k \in 1..(Len(windows) - 1) : windows[k][2] < 2500

\* C15 as stated: the page body with max_chars=1000 and overlap=150 yields
\* exactly one chunk, which contains the whole text with the fenced block
PageBodyOneChunk ==
    (cb_pc = "done" /\ cb_in = PageBody /\ cb_max = 1000 /\ cb_overlap = 150)
        => /\ Len(cb_chunks) = 1
           /\ cb_chunks[1] = PageBody

\* C15 amended: the page body yields exactly three chunks, in order the first
\* paragraph, the fenced block intact, and the last paragraph (the blank
\* lines between them are dropped), with the window of the scenario and with
\* the one of chunk_docs
PageBodyThreeChunks ==
    (cb_pc = "done" /\ cb_in = PageBody)
        => cb_chunks = <<IntroLine, PageBlock, OutroLine>>

\* the page body was chunked with the window of the scenario and its fenced
\* block is one of the chunks
PageBodyChunked ==
    /\ cb_pc = "done" /\ cb_in = PageBody /\ cb_max = 1000 /\ cb_overlap = 150
    /\ PageBlock \in Range(cb_chunks)

\* C16: the list chunk_text returns never holds two consecutive chunks with
\* the same trimmed text
NoConsecutiveDuplicateChunks ==
    ct_pc = "done" =>
        \A k \in 1..(Len(chunks) - 1) : Strip(chunks[k]) # Strip(chunks[k + 1])

\* the number of fence marker lines of a text
FenceLineCount(t) == Len(SelectSeq(SplitLines(t), IsFenceLine))

\* C17: for a text with an odd number of fence marker lines, wrap_code_blocks
\* returns a text with exactly one fence marker line more, an even number
\* (3 in, 4 out), wherever the unmatched opening fence is, the last line
\* included
OddFencesBalanced ==
    (fm_op = "wrap_code_blocks" /\ fm_pc = "done" /\ FenceLineCount(fm_in) % 2 = 1)
        => FenceLineCount(fm_out) = FenceLineCount(fm_in) + 1

\* the heading lines of a text, in order
HeadingLines(t) == SelectSeq(SplitLines(t), IsHeadingLine)

\* C20: no heading line occurs twice in the body format_markdown builds from a
\* crawled page, a heading made by promoting a section label included
NoHeadingTwice ==
    (fm_op = "format_markdown" /\ ~fm_is_md /\ fm_pc = "done")
        => NoDuplicates(HeadingLines(fm_out))

\* C18: no entry whose embedding is null is handed to the vector store: every
\* upsert call of main holds non-null vectors only
NoNullVectorUpserted ==
    \A c \in 1..Len(upserts) :
        \A k \in 1..Len(upserts[c]) : upserts[c][k].embedding # "null"

\* C19: at the end of the run md/ holds the document of every source: no two
\* distinct sources of the run have the same file name
OneDocumentPerSource ==
    ig_pc = "done" =>
        \A k \in 1..Len(rows) :
            /\ url_to_filename(rows[k].source) \in DOMAIN md
            /\ md[url_to_filename(rows[k].source)] = rows[k].source

\* C23: no GET request is issued for a URL with a known binary extension
BinaryNeverFetched ==
    \A k \in 1..Len(fetched) : ~is_probably_binary(fetched[k])

\* the place of the first occurrence of u in the sequence q
FirstPlace(q, u) == CHOOSE i \in 1..Len(q) : q[i] = u /\ \A j \in 1..(i - 1) : q[j] # u

\* C25: URLs are dequeued in the order they were enqueued, and of two
\* recorded URLs the one enqueued first has the earlier record
StrictFifo ==
    /\ Len(dequeued) <= Len(enqueued)
    /\ dequeued = SubSeq(enqueued, 1, Len(dequeued))
    /\ \A i, j \in 1..Len(records) :
          i < j => FirstPlace(enqueued, records[i].url) < FirstPlace(enqueued, records[j].url)

\* three pages were recorded, and one URL was put on the queue twice
ThreeRecordedInQueueOrder ==
    /\ Len(records) = 3
    /\ ~NoDuplicates(enqueued)
    /\ Len(dequeued) >= 3

\* C24: when the input of chunk_with_code_blocks ends inside a fenced block
\* that was opened and never closed, the last fragment is the whole remainder,
\* from the opening fence line to the end of the input
UnterminatedFlushedWhole ==
    cb_pc = "done" =>
        LET ls == SplitLines(cb_in)
            fences == {i \in 1..Len(ls) : IsFenceLine(ls[i])}
        IN  Cardinality(fences) % 2 = 1 =>
                LET open == CHOOSE i \in fences : \A j \in fences : j <= i
                IN  /\ cb_chunks # <<>>
                    /\ cb_chunks[Len(cb_chunks)] = Strip(Join(SubSeq(ls, open, Len(ls))))

\* the fence lines of a list of lines and the lines that lie inside a fenced
\* block, in order
RECURSIVE FencedPart(_, _)
FencedPart(ls, inside) ==
    IF ls = <<>> THEN <<>>
    ELSE IF IsFenceLine(Head(ls)) THEN <<Head(ls)>> \o FencedPart(Tail(ls), ~inside)
    ELSE IF inside THEN <<Head(ls)>> \o FencedPart(Tail(ls), inside)
    ELSE FencedPart(Tail(ls), inside)

\* C28: the cleaning pass of chunk_with_code_blocks removes no fence line and
\* no line of a fenced block: the fence lines and the lines between them are
\* the same in the lines the scan reads as in the input
CleaningKeepsFencedPart ==
    cb_pc \in {"scan", "done"} =>
        FencedPart(lines, FALSE) = FencedPart(SplitLines(cb_in), FALSE)

\* C27: a batch with null vectors does not stop the run: main does not end on
\* an exception, and when it has ended there is exactly one row per chunk, in
\* chunk order, and a document under the file name of every source
EmbeddingFailureTolerated ==
    (\E k \in 1..Len(rows) : rows[k].embedding = "null") =>
        /\ ig_pc # "failed"
        /\ ig_pc = "done" =>
              /\ [k \in 1..Len(rows) |->
                    [source |-> rows[k].source, chunk_id |-> rows[k].chunk_id]] = ig_chunks
              /\ \A k \in 1..Len(ig_chunks) :
                    url_to_filename(ig_chunks[k].source) \in DOMAIN md

\* the reference rule of the table-of-contents filter: a line is short when
\* it is at most max_len characters long after trimming, is no fence line and
\* does not lie inside a code fence; the lines of every maximal run of at
\* least min_run consecutive short lines are dropped, every other line is kept
TocRule(ls) ==
    LET fences == {i \in 1..Len(ls) : IsFenceLine(ls[i])}
        short(i) == /\ IsShortLine(ls[i])
                    /\ Cardinality({k \in fences : k < i}) % 2 = 0
        run(i) == {j \in 1..Len(ls) :
                     \A k \in (IF j < i THEN j ELSE i)..(IF j < i THEN i ELSE j) : short(k)}
        kept == {i \in 1..Len(ls) : ~(short(i) /\ Cardinality(run(i)) >= min_run)}
        RECURSIVE Pick(_)
        Pick(i) == IF i > Len(ls) THEN <<>>
                   ELSE (IF i \in kept THEN <<ls[i]>> ELSE <<>>) \o Pick(i + 1)
    IN  Pick(1)

\* C21: remove_toc_blocks returns what the reference rule returns, on every
\* list of lines
TocFilterMatchesRule ==
    (fm_op = "remove_toc_blocks" /\ fm_pc = "done")
        => fm_lines = TocRule(SplitLines(fm_in))

\* C22: the noise filter applied to its own output returns it unchanged:
\* clean_nav_footer_noise on the text it returned, and clean_lines followed by
\* strip_toc_blocks on the lines they returned
NoiseFilterIdempotent ==
    /\ (fm_op = "clean_nav_footer_noise" /\ fm_pc = "done")
          => clean_nav_footer_noise(fm_out) = fm_out
    /\ (fm_op = "format_markdown" /\ fm_pc = "stripped")
          => strip_toc_blocks(clean_lines(fm_lines)) = fm_lines

\* a list of lines with every line dropped that equals the line before it
RECURSIVE CollapseRuns(_)
CollapseRuns(ls) ==
    IF Len(ls) <= 1 THEN ls
    ELSE LET front == CollapseRuns(SubSeq(ls, 1, Len(ls) - 1))
         IN  IF ls[Len(ls)] = ls[Len(ls) - 1] THEN front ELSE Append(front, ls[Len(ls)])

\* C26: the lines the noise filter returns are the lines left after noise
\* removal with consecutive duplicates collapsed to one and nothing else
\* removed: no two adjacent lines are equal, and equal lines that are not
\* adjacent are all kept
OnlyConsecutiveDuplicatesCollapsed ==
    /\ (fm_op = "clean_nav_footer_noise" /\ fm_pc = "done")
          => SplitLines(fm_out)
               = CollapseRuns(SelectSeq(SplitLines(fm_in), LAMBDA l : ~IsNoiseLine(l)))
    /\ (fm_op = "format_markdown" /\ fm_pc = "cleaned")
          => fm_lines
               = CollapseRuns(SelectSeq(SplitLines(fm_in), LAMBDA l : ~IsJunkLine(l)))

====
